---- MODULE Spec2Model ----
(***************************************************************************)
(* Demiurge: the debate cycle orchestrator (DebateOrchestrator), the       *)
(* agents' bookkeeping it drives (BaseAgent) and the application lifespan  *)
(* that starts and stops it.                                               *)
(*                                                                         *)
(* The orchestrator is one asyncio task.  Python runs a coroutine without  *)
(* interruption between two awaits, so every action below is the code from *)
(* the resumption of one await up to the next await at which a variable of *)
(* the model may differ; pc names the await the task is suspended at.      *)
(* Positions and animations (move_to, set_animation) and the broadcasts    *)
(* change no state a claim reads and are left out; ConnectionManager's     *)
(* broadcast catches every send error, so a broadcast never raises.        *)
(*                                                                         *)
(* Scores that are floats in the code with steps of 0.05 are integers in   *)
(* hundredths here (trust_score 10 is 0.1).                                *)
(***************************************************************************)
EXTENDS Integers, Sequences, FiniteSets, TLC

(***************************************************************************)
(* Bounds of the model.                                                    *)
(***************************************************************************)
\* cycle attempts explored when the votes and failures are unconstrained
MaxCycles == 2
\* cycle attempts explored when every agent keeps one vote for the whole run
MaxRotationCycles == 4
\* cycle attempts explored when the proposal type ranges over every type
MaxWorldCycles == 3
\* cycle attempts explored when every agent keeps one vote and only the first
\* attempt may fail
MaxLongCycles == 63
\* update_relationship calls per peer explored when the method is driven alone
MaxInteractions == 21
\* seconds of the clock explored with the autonomy loop
MaxTime == 40
\* length of an agent's desire list explored
MaxDesires == 1
\* seconds of the clock explored when the debate cycle runs beside the loop
MaxTasksTime == 5
\* debate cycles run next to the autonomy loop
MaxTasksCycles == 2

(***************************************************************************)
(* Program constants.                                                      *)
(***************************************************************************)
InitialInfluence == 100
AcceptInfluenceGain == 10
RejectInfluenceLoss == 5
MajorityVotes == 2
SpiralBaseDistance == 10
SpiralStep == 2
TrustGain == 10
TrustLoss == 5
TrustMax == 100
\* timedelta(seconds=10) of the global cooldown
GlobalCooldownSeconds == 10
\* timedelta(seconds=30) of the per-target cooldown
TargetCooldownSeconds == 30
\* check_interval of start_autonomy_loop
CheckInterval == 5
\* active_desires[:3]
TopDesires == 3

\* DebateOrchestrator.agents: a dict, iterated in insertion order
AgentNames == <<"Axioma", "Veridicus", "Paradoxia">>
\* DebateOrchestrator.agent_order
agent_order == <<"Axioma", "Veridicus", "Paradoxia">>
Agents == {AgentNames[i] : i \in 1..Len(AgentNames)}

\* enum ProposalType
ProposalTypes ==
    {"belief", "ritual", "deity", "commandment", "myth", "sacred_text",
     "hierarchy", "schism"}
\* enum VoteType
VoteTypes == {"accept", "reject", "mutate", "delay"}
\* enum DebatePhase
DebatePhases == {"idle", "proposal", "challenge", "voting", "result", "world_update"}

\* None, as a Proposal no cycle creates
NoProposal ==
    [id |-> [kind |-> "proposal", n |-> 0, name |-> "none"], type |-> "none",
     content |-> [by |-> "none", at |-> 0], author |-> "none", cycle |-> 0]
NoOutcome == "none"

VARIABLES
    \* ---- DebateOrchestrator fields
    cycle_number,        \* self.cycle_number
    current_phase,       \* self.current_phase
    current_proposal,    \* self.current_proposal (NoProposal for None)
    current_challenges,  \* self.current_challenges, a list
    current_votes,       \* self.current_votes, a dict keyed by agent name
    is_running,          \* self.is_running
    doctrines,           \* self.doctrines, a list
    structures,          \* self.structures, a list
    \* ---- BaseAgent fields, per agent name
    proposals_made,
    proposals_accepted,
    influence_score,
    relationships,       \* relationships[a] is a's dict: peer name -> record
    \* ---- the orchestrator task: the await it is suspended at, and locals
    pc,
    proposer_name,       \* local of _run_proposal_phase/_run_challenge_phase
    challenge_idx,       \* position in challenge_tasks
    vote_idx,            \* position in self.agents.items()
    outcome,             \* local of _run_result_phase, returned to run_cycle
    \* ---- main.lifespan
    lifespan_pc,
    \* ---- what the random and the text-generation sources may give in a run
    oracle,
    \* ---- history, read only by the properties
    uuid_count,          \* uuid4() values handed out so far
    in_flight,           \* cycle numbers whose run_cycle has not yet ended
    phase_log,           \* phases entered since the current run_cycle began
    cycle_snapshot,      \* the persistent state when run_cycle began
    \* ---- ChatManager fields
    chat_agents,         \* the names of self.agents, as register_agents set it
    active_users,        \* the keys of self.active_users, in insertion order
    autonomy_pc,         \* the await the autonomy loop task is suspended at
    \* ---- AgentAutonomy fields, per agent name
    desires,             \* self.desires, a list
    aware_of_users,      \* self.aware_of_users, a list
    last_interaction_with,   \* target -> time of the last action aimed at it
    global_action_cooldown,  \* the time from which the agent may act again
    \* ---- datetime.utcnow(), in seconds since the process began
    now,
    \* ---- history: per agent, how many actions decide_action returned, when
    \*      the last one was returned, and when the last one aimed at each target
    action_log,
    \* ---- history: the orchestrator task took no step since stop() was called
    stop_fresh,
    \* ---- the last evaluate_proposal call: its arguments and what it returned
    evaluation,
    \* ---- the last decide_action call: its agent, the fields it found and
    \*      what it returned
    decision,
    \* ---- history: a serial number for every desire in the registered
    \*      agent's list (in the order of the list), and how many were given
    desire_ids,
    ids_made,
    \* ---- AgentAutonomy.recent_events of the registered agent, and how many
    \*      events update_awareness was given so far (history)
    recent_events,
    events_received,
    \* ---- Paradoxia's fields that metamorphose writes
    chaos_level,          \* self.chaos_level, in hundredths
    traits,               \* self.traits, a dict of hundredths
    metamorphosis_count,  \* self.metamorphosis_count
    \* ---- ChatManager fields of the agent conversations
    claude_client,         \* TRUE when self.claude_client is set
    active_conversations,  \* self.active_conversations: id -> metadata
    \* ---- the last call of a ChatManager message method and how it ended
    chat_call,
    \* ---- history of the conversations driven alone: per conversation id,
    \* the broadcast_agent_chat calls made
    agent_chats,
    \* ---- ChatManager fields of the autonomy loop and the tasks around them
    autonomy_running,    \* self._autonomy_running
    autonomy_task,       \* self._autonomy_task: 0 for None, else the task's number
    loop_tasks,          \* per _autonomy_loop task created: where it is suspended
    stop_calls,          \* the stop_autonomy_loop calls suspended at their await
    \* ---- history: the polls of the agents so far, and whether a stop has
    \* returned with no start since it was called
    polls,
    quiet,
    \* ---- ConnectionManager fields
    active_connections,  \* self.active_connections, a set of websockets
    ws_lock,             \* self._lock: the task holding it and those waiting
    \* ---- the tasks that call connect, disconnect and broadcast
    ws_pc,               \* per task, the await it is suspended at
    broadcast,           \* per broadcasting task, the locals of its broadcast
    \* ---- history: the websockets a broadcast has removed, messages so far
    ws_removed,
    msg_count

orch_vars ==
    <<cycle_number, current_phase, current_proposal, current_challenges,
      current_votes, is_running, doctrines, structures>>
agent_vars == <<proposals_made, proposals_accepted, influence_score, relationships>>
task_vars == <<pc, proposer_name, challenge_idx, vote_idx, outcome>>
hist_vars == <<uuid_count, in_flight, phase_log, cycle_snapshot>>
chat_vars == <<chat_agents, active_users, autonomy_pc>>
autonomy_vars ==
    <<desires, aware_of_users, last_interaction_with, global_action_cooldown>>
\* what only the calls made on single methods write
ws_vars == <<active_connections, ws_lock, ws_pc, broadcast, ws_removed, msg_count>>
tick_vars == <<desire_ids, ids_made>>
event_vars == <<recent_events, events_received>>
para_vars == <<chaos_level, traits, metamorphosis_count>>
loop_vars == <<autonomy_running, autonomy_task, loop_tasks, stop_calls, polls, quiet>>
more_call_vars == <<event_vars, para_vars, agent_chats, loop_vars>>
call_vars_but_paradoxia ==
    <<evaluation, decision, tick_vars, claude_client, active_conversations, chat_call,
      ws_vars, event_vars, agent_chats, loop_vars>>
call_vars_but_loop ==
    <<evaluation, decision, tick_vars, claude_client, active_conversations, chat_call,
      ws_vars, event_vars, para_vars, agent_chats>>
call_vars ==
    <<evaluation, decision, tick_vars, claude_client, active_conversations, chat_call,
      ws_vars, more_call_vars>>
auto_vars == <<chat_vars, autonomy_vars, now, action_log, call_vars>>
vars ==
    <<orch_vars, agent_vars, task_vars, lifespan_pc, oracle, hist_vars, auto_vars,
      stop_fresh>>

(***************************************************************************)
(* Pure helpers.                                                           *)
(***************************************************************************)
\* the votes Axioma.evaluate_proposal can return: REJECT, ACCEPT (by the
\* scores or by trust) or MUTATE
AxiomaVotes == {"accept", "reject", "mutate"}
\* the votes Veridicus.evaluate_proposal can return: one per branch
VeridicusVotes == {"accept", "reject", "mutate", "delay"}
\* the votes Paradoxia.evaluate_proposal can return: its chaos_level stays at
\* the initial 1.0 (metamorphose has no caller), so the uniform-random branch
\* (chaos_level > 1.5) is never taken and the others give no DELAY
ParadoxiaVotes == {"accept", "reject", "mutate"}

\* BaseAgent.vote: the vote types self.evaluate_proposal may give agent a
VoteRange(a) ==
    CASE a = "Axioma" -> AxiomaVotes
      [] a = "Veridicus" -> VeridicusVotes
      [] a = "Paradoxia" -> ParadoxiaVotes
      [] OTHER -> {}

\* f"proposal_{cycle_number}_{self.name}"
ProposalId(c, a) == [kind |-> "proposal", n |-> c, name |-> a]
\* str(uuid4()): the k-th fresh identifier
Uuid(k) == [kind |-> "uuid", n |-> k, name |-> ""]

\* self.agent_order[self.cycle_number % len(self.agent_order)] (0-based in the code)
Proposer_offbyone(n) == agent_order[((n - 1) % Len(agent_order)) + 1]
Proposer(n) == agent_order[(n % Len(agent_order)) + 1]

\* challengers = [(name, agent) for name, agent in self.agents.items() if name != proposer_name]
Challengers(p) == SelectSeq(AgentNames, LAMBDA a : a # p)

\* the voters of _run_voting_phase: every entry of self.agents
Voters_skipproposer(p) == SelectSeq(AgentNames, LAMBDA a : a # p)
Voters(p) == AgentNames

RECURSIVE CountVotes(_, _, _)
\* for vote in self.current_votes.values(): vote_counts[vote.vote] += 1
CountVotes(votes, names, counts) ==
    IF names = <<>> THEN counts
    ELSE LET a == Head(names)
             c == IF a \in DOMAIN votes
                  THEN [counts EXCEPT ![votes[a].vote] = @ + 1]
                  ELSE counts
         IN CountVotes(votes, Tail(names), c)

VoteCounts(votes) == CountVotes(votes, AgentNames, [v \in VoteTypes |-> 0])

\* the if/elif chain that determines the outcome
DetermineOutcome_strict(vc) ==
    IF vc["accept"] > MajorityVotes THEN "accepted"
    ELSE IF vc["reject"] > MajorityVotes THEN "rejected"
    ELSE IF vc["mutate"] > MajorityVotes THEN "mutated"
    ELSE "delayed"
DetermineOutcome(vc) ==
    IF vc["accept"] >= MajorityVotes THEN "accepted"
    ELSE IF vc["reject"] >= MajorityVotes THEN "rejected"
    ELSE IF vc["mutate"] >= MajorityVotes THEN "mutated"
    ELSE "delayed"

\* type_mapping of _generate_world_change
TypeMapping_swapped(t) ==
    CASE t = "belief" -> "floating_symbol"
      [] t = "ritual" -> "temple"
      [] t = "deity" -> "altar"
      [] t = "commandment" -> "obelisk"
      [] t = "myth" -> "terrain_feature"
      [] t = "sacred_text" -> "library"
      [] t = "hierarchy" -> "monument"
      [] t = "schism" -> "rift"
      [] OTHER -> "monument"
TypeMapping(t) ==
    CASE t = "belief" -> "floating_symbol"
      [] t = "ritual" -> "altar"
      [] t = "deity" -> "temple"
      [] t = "commandment" -> "obelisk"
      [] t = "myth" -> "terrain_feature"
      [] t = "sacred_text" -> "library"
      [] t = "hierarchy" -> "monument"
      [] t = "schism" -> "rift"
      [] OTHER -> "monument"

\* distance = 10 + len(self.structures) * 2
SpiralDistance(count) == SpiralBaseDistance + count * SpiralStep

\* "crystal" if author == "Axioma" else ("stone" if author == "Veridicus" else "ethereal")
MaterialPreset(author) ==
    IF author = "Axioma" THEN "crystal"
    ELSE IF author = "Veridicus" THEN "stone" ELSE "ethereal"

\* _generate_world_change: x = cos(angle) * distance, z = sin(angle) * distance
\* with angle = count * 0.618 * 2 pi; the position is kept in polar form
\* (spiral_index, distance), (x, z) being that point of the plane
GenerateWorldChange(proposal, count, cyc, k) ==
    [id |-> Uuid(k),
     structure_type |-> TypeMapping(proposal.type),
     spiral_index |-> count,
     distance |-> SpiralDistance(count),
     material_preset |-> MaterialPreset(proposal.author),
     created_by |-> proposal.author,
     created_at_cycle |-> cyc,
     associated_doctrine_id |-> proposal.id]

\* the dict appended to self.doctrines
Doctrine(proposal, cyc, k) ==
    [id |-> Uuid(k),
     content |-> proposal.content,
     type |-> proposal.type,
     proposed_by |-> proposal.author,
     accepted_at_cycle |-> cyc]

\* the record update_relationship creates for a peer seen for the first time
NewRelationship ==
    [trust_score |-> 0, agreement_rate |-> <<1, 2>>, total_interactions |-> 0,
     alliances |-> 0, conflicts |-> 0]

Min(a, b) == IF a < b THEN a ELSE b
Max(a, b) == IF a > b THEN a ELSE b

\* BaseAgent.update_relationship(other, "vote_agreement", agreed) on the dict
\* rels of one agent; agreement_rate alliances/total is kept as <<num, den>>
UpdateRelationship_unclamped(rels, other, agreed) ==
    LET old == IF other \in DOMAIN rels THEN rels[other] ELSE NewRelationship
        al == old.alliances + (IF agreed THEN 1 ELSE 0)
        co == old.conflicts + (IF agreed THEN 0 ELSE 1)
        new == [trust_score |->
                    IF agreed THEN old.trust_score + TrustGain
                    ELSE old.trust_score - TrustLoss,
                agreement_rate |-> <<al, al + co>>,
                total_interactions |-> old.total_interactions + 1,
                alliances |-> al,
                conflicts |-> co]
    IN [b \in (DOMAIN rels) \cup {other} |-> IF b = other THEN new ELSE rels[b]]
UpdateRelationship_agreedonly(rels, other, agreed) ==
    LET old == IF other \in DOMAIN rels THEN rels[other] ELSE NewRelationship
        al == old.alliances + (IF agreed THEN 1 ELSE 0)
        new == [trust_score |->
                    IF agreed THEN Min(TrustMax, old.trust_score + TrustGain)
                    ELSE Max(0 - TrustMax, old.trust_score - TrustLoss),
                agreement_rate |-> <<al, al + old.conflicts>>,
                total_interactions |-> old.total_interactions + 1,
                alliances |-> al,
                conflicts |-> old.conflicts]
    IN [b \in (DOMAIN rels) \cup {other} |-> IF b = other THEN new ELSE rels[b]]
UpdateRelationship(rels, other, agreed) ==
    LET old == IF other \in DOMAIN rels THEN rels[other] ELSE NewRelationship
        al == old.alliances + (IF agreed THEN 1 ELSE 0)
        co == old.conflicts + (IF agreed THEN 0 ELSE 1)
        new == [trust_score |->
                    IF agreed THEN Min(TrustMax, old.trust_score + TrustGain)
                    ELSE Max(0 - TrustMax, old.trust_score - TrustLoss),
                agreement_rate |-> <<al, al + co>>,
                total_interactions |-> old.total_interactions + 1,
                alliances |-> al,
                conflicts |-> co]
    IN [b \in (DOMAIN rels) \cup {other} |-> IF b = other THEN new ELSE rels[b]]

RECURSIVE UpdateAgainst_peeraccepts(_, _, _, _)
UpdateAgainst_peeraccepts(rels, name1, names, votes) ==
    IF names = <<>> THEN rels
    ELSE LET name2 == Head(names)
             r == IF name2 \in DOMAIN votes /\ name1 # name2
                  THEN UpdateRelationship(rels, name2, votes[name2].vote = "accept")
                  ELSE rels
         IN UpdateAgainst_peeraccepts(r, name1, Tail(names), votes)

RECURSIVE UpdateAgainst(_, _, _, _)
\* the inner loop of the relationship update: name1 against every name2 of
\* current_votes (dict order) with name1 != name2
UpdateAgainst(rels, name1, names, votes) ==
    IF names = <<>> THEN rels
    ELSE LET name2 == Head(names)
             r == IF name2 \in DOMAIN votes /\ name1 # name2
                  THEN UpdateRelationship(rels, name2,
                                          votes[name1].vote = votes[name2].vote)
                  ELSE rels
         IN UpdateAgainst(r, name1, Tail(names), votes)

\* the double loop over current_votes.items()
UpdateRelationships_none(rel, votes) == rel
UpdateRelationships(rel, votes) ==
    [a \in Agents |->
        IF a \in DOMAIN votes
        THEN UpdateAgainst(rel[a], a, AgentNames, votes)
        ELSE rel[a]]

\* BaseAgent.record_proposal_outcome: the new influence score
InfluenceAfter_nofloor(score, accepted) ==
    IF accepted THEN score + AcceptInfluenceGain
    ELSE score - RejectInfluenceLoss
InfluenceAfter(score, accepted) ==
    IF accepted THEN score + AcceptInfluenceGain
    ELSE Max(0, score - RejectInfluenceLoss)

\* the bound on cycle attempts of the run
CycleLimit == oracle.cycles
\* the bound on the clock of the run
TimeLimit == oracle.seconds

EmptyDict == <<>>

(***************************************************************************)
(* What the sources of nondeterminism may give in a run: the proposal      *)
(* types random.choices may select, the votes evaluate_proposal may return *)
(* for each agent, the cycle attempts in which ClaudeClient.generate may   *)
(* raise, how many cycle attempts and how many seconds are explored.       *)
(***************************************************************************)
\* any vote, any failure, two proposal types, few cycle attempts
FreeOracles ==
    {[types |-> {"ritual", "schism"}, votes |-> [a \in Agents |-> VoteRange(a)],
      fails |-> 1..MaxCycles, cycles |-> MaxCycles, seconds |-> MaxTime]}

\* the vote functions that give every agent one vote of its range
FixedVotes ==
    {g \in [Agents -> VoteTypes] : \A a \in Agents : g[a] \in VoteRange(a)}

\* every agent keeps one vote for the whole run, over more cycle attempts
RotationOracles ==
    {[types |-> {"ritual"}, votes |-> [a \in Agents |-> {f[a]}],
      fails |-> 1..MaxRotationCycles, cycles |-> MaxRotationCycles,
      seconds |-> MaxTime] : f \in FixedVotes}

\* one proposal type per run, every type in some run, and one vote per agent
WorldOracles ==
    {[types |-> {t}, votes |-> [a \in Agents |-> {f[a]}],
      fails |-> 1..MaxWorldCycles, cycles |-> MaxWorldCycles,
      seconds |-> MaxTime] : t \in ProposalTypes, f \in FixedVotes}

\* every agent keeps one vote for the whole run, over many cycle attempts, of
\* which only the first may fail
LongOracles ==
    {[types |-> {"ritual"}, votes |-> [a \in Agents |-> {f[a]}],
      fails |-> {1}, cycles |-> MaxLongCycles, seconds |-> MaxTime] :
        f \in FixedVotes}

\* one cycle attempt beside the autonomy loop: all agents accept, or all
\* reject, and the loop runs for a few seconds
TasksOracles ==
    {[types |-> {"ritual"}, votes |-> [a \in Agents |-> {v}],
      fails |-> {1}, cycles |-> MaxTasksCycles, seconds |-> MaxTasksTime] :
        v \in {"accept", "reject"}}

Snapshot ==
    [doctrines |-> doctrines, structures |-> structures,
     relationships |-> relationships, influence_score |-> influence_score,
     proposals_accepted |-> proposals_accepted]

(***************************************************************************)
(* DebateOrchestrator.__init__, BaseAgent.__init__ and the task created by *)
(* lifespan.                                                               *)
(***************************************************************************)
InitState ==
    /\ cycle_number = 0
    /\ current_phase = "idle"
    /\ current_proposal = NoProposal
    /\ current_challenges = <<>>
    /\ current_votes = EmptyDict
    /\ is_running = FALSE
    /\ doctrines = <<>>
    /\ structures = <<>>
    /\ proposals_made = [a \in Agents |-> 0]
    /\ proposals_accepted = [a \in Agents |-> 0]
    /\ influence_score = [a \in Agents |-> InitialInfluence]
    /\ relationships = [a \in Agents |-> EmptyDict]
    /\ pc = "created"
    /\ proposer_name = "none"
    /\ challenge_idx = 1
    /\ vote_idx = 1
    /\ outcome = NoOutcome
    /\ lifespan_pc = "serving"
    /\ uuid_count = 0
    /\ in_flight = {}
    /\ phase_log = <<>>
    /\ stop_fresh = FALSE
    /\ cycle_snapshot =
        [doctrines |-> <<>>, structures |-> <<>>,
         relationships |-> [a \in Agents |-> EmptyDict],
         influence_score |-> [a \in Agents |-> InitialInfluence],
         proposals_accepted |-> [a \in Agents |-> 0]]

\* AgentAutonomy.__init__ of every agent, at time 0 of the process
AutonomyInit ==
    /\ desires = [a \in Agents |-> <<>>]
    /\ aware_of_users = [a \in Agents |-> <<>>]
    /\ last_interaction_with = [a \in Agents |-> EmptyDict]
    /\ global_action_cooldown = [a \in Agents |-> 0]
    /\ now = 0
    /\ action_log = [a \in Agents |-> [count |-> 0, at |-> 0, by_target |-> EmptyDict]]

\* no method has been called alone yet
NoCall == [agent |-> "none"]
\* the websockets that connect in a run
Sockets == {"w1", "w2", "w3"}
\* the tasks that broadcast: the orchestrator's and a request handler's
Broadcasters == {"orchestrator", "handler"}
\* asyncio.Lock(): unlocked, nobody waiting
Unlocked == [holder |-> "none", waiters |-> <<>>]
\* the locals of a broadcast not begun
NoBroadcast ==
    [msg |-> 0, fanout_with |-> {}, todo |-> {}, sent |-> {},
     disconnected |-> {}, outcome |-> "none"]
\* ConnectionManager.__init__, and no connection or broadcast yet
WsInit ==
    /\ active_connections = {}
    /\ ws_lock = Unlocked
    /\ ws_pc = [t \in Sockets \cup Broadcasters |->
                    IF t \in Sockets THEN "fresh" ELSE "idle"]
    /\ broadcast = [b \in Broadcasters |-> NoBroadcast]
    /\ ws_removed = {}
    /\ msg_count = 0

\* Paradoxia._init_traits, in hundredths
ParadoxiaTraits ==
    [chaotic |-> 80, subversive |-> 70, playful |-> 90, disruptive |-> 60,
     creative |-> 90, paradoxical |-> 85, adaptive |-> 80, intuitive |-> 75,
     transformative |-> 70, boundary_crossing |-> 80]
\* MIN_CHAOS = 0.0, MAX_CHAOS = 2.0 and the chaos_level = 1.0 of __init__
MinChaos == 0
MaxChaos == 200
InitialChaos == 100

\* Paradoxia.__init__
ParadoxiaInit ==
    /\ chaos_level = InitialChaos
    /\ traits = ParadoxiaTraits
    /\ metamorphosis_count = 0

\* no method has been called alone, whatever Paradoxia's fields are
OtherCallsInit ==
    /\ evaluation = NoCall
    /\ decision = NoCall
    /\ desire_ids = <<>>
    /\ ids_made = 0
    /\ chat_call = NoCall
    /\ recent_events = <<>>
    /\ events_received = 0
    /\ agent_chats = EmptyDict
    /\ autonomy_running = FALSE
    /\ autonomy_task = 0
    /\ loop_tasks = <<>>
    /\ stop_calls = {}
    /\ polls = [count |-> 0, by |-> 0]
    /\ quiet = FALSE
    /\ WsInit

CallInit == OtherCallsInit /\ ParadoxiaInit

\* ChatManager.__init__: no agent registered, no user, no autonomy loop
\* (main.py calls neither register_agents nor start_autonomy_loop)
ChatInit ==
    /\ chat_agents = {}
    /\ claude_client = FALSE
    /\ active_users = <<>>
    /\ active_conversations = EmptyDict
    /\ autonomy_pc = "stopped"

Init == InitState /\ AutonomyInit /\ CallInit /\ ChatInit /\ oracle \in FreeOracles

InitRotation == InitState /\ AutonomyInit /\ CallInit /\ ChatInit /\ oracle \in RotationOracles

InitWorld == InitState /\ AutonomyInit /\ CallInit /\ ChatInit /\ oracle \in WorldOracles

InitLong == InitState /\ AutonomyInit /\ CallInit /\ ChatInit /\ oracle \in LongOracles

(***************************************************************************)
(* start() and run_cycle up to its first await.                            *)
(***************************************************************************)
\* run_cycle's first statements: self.cycle_number += 1, then the await of
\* broadcast_cycle_start
BeginCycle ==
    /\ cycle_number' = cycle_number + 1
    /\ pc' = "cycle_start"
    /\ in_flight' = (IF pc = "cycle_end" THEN in_flight \ {cycle_number} ELSE in_flight)
                        \cup {cycle_number + 1}
    /\ phase_log' = <<>>
    /\ cycle_snapshot' = Snapshot

\* the while loop of start() reaches its test only when `await run_cycle()`
\* has returned (the cycle's last sleep is over) or has raised and the
\* backoff sleep is over
AwaitReturned_reentrant == pc \in {"cycle_end", "backoff", "result_shown"}
AwaitReturned == pc \in {"cycle_end", "backoff"}

\* the test of `while self.is_running`
LoopContinues_forever(flag) == TRUE
LoopContinues(flag) == flag

\* start(): is_running = True, the first loop test, the first run_cycle
Start ==
    /\ pc = "created"
    /\ cycle_number < CycleLimit
    /\ is_running' = TRUE
    /\ BeginCycle
    /\ UNCHANGED <<current_phase, current_proposal, current_challenges, current_votes,
                   doctrines, structures, agent_vars, proposer_name, challenge_idx,
                   vote_idx, outcome, lifespan_pc, oracle, uuid_count>>
    /\ stop_fresh' = FALSE
    /\ UNCHANGED auto_vars

\* while self.is_running: the next run_cycle
NextCycle ==
    /\ AwaitReturned
    /\ LoopContinues(is_running)
    /\ cycle_number < CycleLimit
    /\ BeginCycle
    /\ UNCHANGED <<current_phase, current_proposal, current_challenges, current_votes,
                   is_running, doctrines, structures, agent_vars, proposer_name,
                   challenge_idx, vote_idx, outcome, lifespan_pc, oracle, uuid_count>>
    /\ stop_fresh' = FALSE
    /\ UNCHANGED auto_vars

\* while self.is_running: the flag is clear, start() returns
LoopExit ==
    /\ AwaitReturned
    /\ ~LoopContinues(is_running)
    /\ pc' = "returned"
    /\ in_flight' = in_flight \ {cycle_number}
    /\ UNCHANGED <<orch_vars, agent_vars, proposer_name, challenge_idx, vote_idx,
                   outcome, lifespan_pc, oracle, uuid_count, phase_log, cycle_snapshot>>
    /\ stop_fresh' = FALSE
    /\ UNCHANGED auto_vars

(***************************************************************************)
(* _run_proposal_phase                                                     *)
(***************************************************************************)
\* run_cycle resets the cycle's lists, the phase is set, the proposer is
\* selected; the task then awaits the proposer's text generation
ProposalPhaseEnter ==
    /\ pc = "cycle_start"
    /\ current_challenges' = <<>>
    /\ current_votes' = EmptyDict
    /\ current_phase' = "proposal"
    /\ proposer_name' = Proposer(cycle_number)
    /\ pc' = "proposing"
    /\ phase_log' = Append(phase_log, "proposal")
    /\ UNCHANGED <<cycle_number, current_proposal, is_running, doctrines, structures,
                   agent_vars, challenge_idx, vote_idx, outcome, lifespan_pc, oracle,
                   uuid_count, in_flight, cycle_snapshot>>
    /\ stop_fresh' = FALSE
    /\ UNCHANGED auto_vars

\* BaseAgent.create_proposal: the Proposal built once the text is generated
CreateProposal(name, t, cyc) ==
    [id |-> ProposalId(cyc, name), type |-> t, content |-> [by |-> name, at |-> cyc],
     author |-> name, cycle |-> cyc]

\* the generation returned: create_proposal builds the Proposal and counts it
ProposalGenerated ==
    /\ pc = "proposing"
    /\ \E t \in oracle.types :
         current_proposal' = CreateProposal(proposer_name, t, cycle_number)
    /\ proposals_made' = [proposals_made EXCEPT ![proposer_name] = @ + 1]
    /\ pc' = "proposal_shown"
    /\ UNCHANGED <<cycle_number, current_phase, current_challenges, current_votes,
                   is_running, doctrines, structures, proposals_accepted,
                   influence_score, relationships, proposer_name, challenge_idx,
                   vote_idx, outcome, lifespan_pc, oracle, hist_vars>>
    /\ stop_fresh' = FALSE
    /\ UNCHANGED auto_vars

\* where the task is once an exception of the proposer's generation has left
\* run_cycle: start() has caught it and sleeps 5 s
AfterProposalFailure_swallowed == "proposal_shown"
AfterProposalFailure_fatal == "returned"
AfterProposalFailure == "backoff"

\* ClaudeClient.generate raised: nothing catches it before start()
ProposalFails ==
    /\ pc = "proposing"
    /\ cycle_number \in oracle.fails
    /\ pc' = AfterProposalFailure
    /\ in_flight' = IF AfterProposalFailure = "backoff"
                    THEN in_flight \ {cycle_number} ELSE in_flight
    /\ UNCHANGED <<orch_vars, agent_vars, proposer_name, challenge_idx, vote_idx,
                   outcome, lifespan_pc, oracle, uuid_count, phase_log, cycle_snapshot>>
    /\ stop_fresh' = FALSE
    /\ UNCHANGED auto_vars

(***************************************************************************)
(* _run_challenge_phase                                                    *)
(***************************************************************************)
ChallengePhaseEnter ==
    /\ pc = "proposal_shown"
    /\ current_phase' = "challenge"
    /\ proposer_name' = current_proposal.author
    /\ challenge_idx' = 1
    /\ pc' = "challenging"
    /\ phase_log' = Append(phase_log, "challenge")
    /\ UNCHANGED <<cycle_number, current_proposal, current_challenges, current_votes,
                   is_running, doctrines, structures, agent_vars, vote_idx, outcome,
                   lifespan_pc, oracle, uuid_count, in_flight, cycle_snapshot>>
    /\ stop_fresh' = FALSE
    /\ UNCHANGED auto_vars

\* _run_voting_phase up to its first await
EnterVoting ==
    /\ current_phase' = "voting"
    /\ vote_idx' = 1
    /\ pc' = "voting"
    /\ phase_log' = Append(phase_log, "voting")

\* BaseAgent.challenge: the Challenge of `name` to `proposal` (proposal_id is
\* the proposal the coroutine was created for: the text answers it)
MakeChallenge(name, proposal) ==
    [agent_name |-> name, content |-> [by |-> name, at |-> proposal.cycle],
     proposal_id |-> proposal.id]

\* `challenge = await task` returned for the challenger at challenge_idx
ChallengeGenerated ==
    /\ pc = "challenging"
    /\ LET ch == Challengers(proposer_name)
       IN /\ current_challenges' =
                Append(current_challenges,
                       MakeChallenge(ch[challenge_idx], current_proposal))
          /\ IF challenge_idx < Len(ch)
             THEN challenge_idx' = challenge_idx + 1 /\ pc' = "challenging"
             ELSE challenge_idx' = challenge_idx /\ pc' = "challenges_done"
    /\ UNCHANGED <<cycle_number, current_phase, current_proposal, current_votes,
                   is_running, doctrines, structures, agent_vars, proposer_name,
                   vote_idx, outcome, lifespan_pc, oracle, hist_vars>>
    /\ stop_fresh' = FALSE
    /\ UNCHANGED auto_vars

\* `await task` raised: the except clause inside the loop logs it and the loop
\* goes on with the next challenger, or the phase ends and voting begins
ChallengeFails ==
    /\ pc = "challenging"
    /\ cycle_number \in oracle.fails
    /\ IF challenge_idx < Len(Challengers(proposer_name))
       THEN /\ challenge_idx' = challenge_idx + 1
            /\ UNCHANGED <<current_phase, vote_idx, pc, phase_log>>
       ELSE /\ EnterVoting
            /\ UNCHANGED challenge_idx
    /\ UNCHANGED <<cycle_number, current_proposal, current_challenges, current_votes,
                   is_running, doctrines, structures, agent_vars, proposer_name,
                   outcome, lifespan_pc, oracle, uuid_count, in_flight, cycle_snapshot>>
    /\ stop_fresh' = FALSE
    /\ UNCHANGED auto_vars

(***************************************************************************)
(* _run_voting_phase                                                       *)
(***************************************************************************)
VotingPhaseEnter ==
    /\ pc = "challenges_done"
    /\ EnterVoting
    /\ UNCHANGED <<cycle_number, current_proposal, current_challenges, current_votes,
                   is_running, doctrines, structures, agent_vars, proposer_name,
                   challenge_idx, outcome, lifespan_pc, oracle, uuid_count, in_flight,
                   cycle_snapshot>>
    /\ stop_fresh' = FALSE
    /\ UNCHANGED auto_vars

\* BaseAgent.vote: the Vote of `name` (proposal_id and cast_in record what was
\* evaluated and when, as the Vote's timestamp does)
MakeVote(name, v, proposal, cyc) ==
    [agent_name |-> name, vote |-> v, proposal_id |-> proposal.id, cast_in |-> cyc]

\* one iteration of `for name, agent in self.agents.items()`
CastVote ==
    /\ pc = "voting"
    /\ LET vs == Voters(proposer_name)
           name == vs[vote_idx]
       IN /\ \E v \in VoteRange(name) \cap oracle.votes[name] :
                current_votes' =
                    (name :> MakeVote(name, v, current_proposal, cycle_number))
                        @@ current_votes
          /\ IF vote_idx < Len(vs)
             THEN vote_idx' = vote_idx + 1 /\ pc' = "voting"
             ELSE vote_idx' = vote_idx /\ pc' = "votes_done"
    /\ UNCHANGED <<cycle_number, current_phase, current_proposal, current_challenges,
                   is_running, doctrines, structures, agent_vars, proposer_name,
                   challenge_idx, outcome, lifespan_pc, oracle, hist_vars>>
    /\ stop_fresh' = FALSE
    /\ UNCHANGED auto_vars

(***************************************************************************)
(* _run_result_phase                                                       *)
(***************************************************************************)
ResultPhaseEnter ==
    /\ pc = "votes_done"
    /\ current_phase' = "result"
    /\ pc' = "result_tally"
    /\ phase_log' = Append(phase_log, "result")
    /\ UNCHANGED <<cycle_number, current_proposal, current_challenges, current_votes,
                   is_running, doctrines, structures, agent_vars, proposer_name,
                   challenge_idx, vote_idx, outcome, lifespan_pc, oracle, uuid_count,
                   in_flight, cycle_snapshot>>
    /\ stop_fresh' = FALSE
    /\ UNCHANGED auto_vars

\* the votes are counted, the outcome determined, the proposer's statistics
\* and every agent's relationships updated; then broadcast_debate_result
ResultTally ==
    /\ pc = "result_tally"
    /\ LET o == DetermineOutcome(VoteCounts(current_votes))
           proposer == current_proposal.author
       IN /\ outcome' = o
          /\ proposals_accepted' =
                IF o = "accepted"
                THEN [proposals_accepted EXCEPT ![proposer] = @ + 1]
                ELSE proposals_accepted
          /\ influence_score' =
                [influence_score EXCEPT ![proposer] = InfluenceAfter(@, o = "accepted")]
    /\ relationships' = UpdateRelationships(relationships, current_votes)
    /\ pc' = "result_announced"
    /\ UNCHANGED <<orch_vars, proposals_made, proposer_name, challenge_idx, vote_idx,
                   lifespan_pc, oracle, hist_vars>>
    /\ stop_fresh' = FALSE
    /\ UNCHANGED auto_vars

\* whether the result phase appends a doctrine for this outcome
RecordsDoctrine_always(o) == TRUE
RecordsDoctrine(o) == o = "accepted"

\* after the result broadcast: the doctrine is appended if accepted, then the
\* result is shown for result_duration
ResultRecord ==
    /\ pc = "result_announced"
    /\ IF RecordsDoctrine(outcome)
       THEN /\ doctrines' =
                 Append(doctrines, Doctrine(current_proposal, cycle_number, uuid_count + 1))
            /\ uuid_count' = uuid_count + 1
       ELSE UNCHANGED <<doctrines, uuid_count>>
    /\ pc' = "result_shown"
    /\ UNCHANGED <<cycle_number, current_phase, current_proposal, current_challenges,
                   current_votes, is_running, structures, agent_vars, proposer_name,
                   challenge_idx, vote_idx, outcome, lifespan_pc, oracle, in_flight,
                   phase_log, cycle_snapshot>>
    /\ stop_fresh' = FALSE
    /\ UNCHANGED auto_vars

(***************************************************************************)
(* _run_world_update_phase and the end of run_cycle                        *)
(***************************************************************************)
\* run_cycle: if outcome == "accepted"
RunsWorldUpdate_always(o) == TRUE
RunsWorldUpdate_never(o) == FALSE
RunsWorldUpdate(o) == o = "accepted"

\* the structure is generated and appended (world_change is a non-empty dict,
\* so `if world_change` holds), then broadcast; the agents go home
WorldUpdate ==
    /\ pc = "result_shown"
    /\ RunsWorldUpdate(outcome)
    /\ current_phase' = "world_update"
    /\ structures' =
          Append(structures,
                 GenerateWorldChange(current_proposal, Len(structures), cycle_number,
                                     uuid_count + 1))
    /\ uuid_count' = uuid_count + 1
    /\ pc' = "world_updated"
    /\ phase_log' = Append(phase_log, "world_update")
    /\ UNCHANGED <<cycle_number, current_proposal, current_challenges, current_votes,
                   is_running, doctrines, agent_vars, proposer_name, challenge_idx,
                   vote_idx, outcome, lifespan_pc, oracle, in_flight, cycle_snapshot>>
    /\ stop_fresh' = FALSE
    /\ UNCHANGED auto_vars

\* the outcome is not accepted: broadcast_cycle_end, then the 2 s sleep
SkipWorldUpdate ==
    /\ pc = "result_shown"
    /\ ~RunsWorldUpdate(outcome)
    /\ pc' = "cycle_end"
    /\ UNCHANGED <<orch_vars, agent_vars, proposer_name, challenge_idx, vote_idx,
                   outcome, lifespan_pc, oracle, hist_vars>>
    /\ stop_fresh' = FALSE
    /\ UNCHANGED auto_vars

\* after the world update: broadcast_cycle_end, then the 2 s sleep
CycleEnd ==
    /\ pc = "world_updated"
    /\ pc' = "cycle_end"
    /\ UNCHANGED <<orch_vars, agent_vars, proposer_name, challenge_idx, vote_idx,
                   outcome, lifespan_pc, oracle, hist_vars>>
    /\ stop_fresh' = FALSE
    /\ UNCHANGED auto_vars

(***************************************************************************)
(* main.lifespan: shutdown                                                 *)
(***************************************************************************)
\* await debate_orchestrator.stop(): the running flag is cleared.  lifespan
\* yields to the server between create_task and the shutdown, so the task has
\* taken its first step (start() up to run_cycle's first await) before
Stop ==
    /\ lifespan_pc = "serving"
    /\ pc # "created"
    /\ stop_fresh' = TRUE
    /\ is_running' = FALSE
    /\ lifespan_pc' = "stopped"
    /\ UNCHANGED <<cycle_number, current_phase, current_proposal, current_challenges,
                   current_votes, doctrines, structures, agent_vars, task_vars, oracle,
                   hist_vars>>
    /\ UNCHANGED auto_vars

\* orchestrator_task.cancel(): CancelledError is raised at the await the task
\* is suspended at; it is no Exception, so no except clause catches it and
\* the task ends (a task that already returned stays returned)
Cancel ==
    /\ lifespan_pc = "stopped"
    /\ lifespan_pc' = "shutdown"
    /\ pc' = IF pc = "returned" THEN "returned" ELSE "cancelled"
    /\ in_flight' = {}
    /\ UNCHANGED <<orch_vars, agent_vars, proposer_name, challenge_idx, vote_idx,
                   outcome, oracle, uuid_count, phase_log, cycle_snapshot>>
    /\ UNCHANGED <<auto_vars, stop_fresh>>

Next ==
    \/ Start
    \/ NextCycle
    \/ LoopExit
    \/ ProposalPhaseEnter
    \/ ProposalGenerated
    \/ ProposalFails
    \/ ChallengePhaseEnter
    \/ ChallengeGenerated
    \/ ChallengeFails
    \/ VotingPhaseEnter
    \/ CastVote
    \/ ResultPhaseEnter
    \/ ResultTally
    \/ ResultRecord
    \/ WorldUpdate
    \/ SkipWorldUpdate
    \/ CycleEnd
    \/ Stop
    \/ Cancel

Spec == Init /\ [][Next]_vars

SpecRotation == InitRotation /\ [][Next]_vars

SpecWorld == InitWorld /\ [][Next]_vars

SpecLong == InitLong /\ [][Next]_vars

(***************************************************************************)
(* BaseAgent.update_relationship driven alone: one agent, any peer, any    *)
(* sequence of agreements and disagreements.                               *)
(***************************************************************************)
\* the agents whose update_relationship is called
TrustSubjects == {"Axioma"}

InitTrust == InitState /\ AutonomyInit /\ CallInit /\ ChatInit /\ oracle \in FreeOracles

\* agent.update_relationship(other, "vote_agreement", agreed)
UpdateRelationshipCall ==
    \E a \in TrustSubjects : \E other \in Agents \ {a} : \E agreed \in BOOLEAN :
        /\ (other \in DOMAIN relationships[a] =>
                relationships[a][other].total_interactions < MaxInteractions)
        /\ relationships' =
                [relationships EXCEPT ![a] = UpdateRelationship(@, other, agreed)]
        /\ UNCHANGED <<orch_vars, proposals_made, proposals_accepted, influence_score,
                       task_vars, lifespan_pc, oracle, hist_vars, auto_vars, stop_fresh>>

NextTrust == UpdateRelationshipCall

SpecTrust == InitTrust /\ [][NextTrust]_vars

(***************************************************************************)
(* AgentAutonomy and the ChatManager that drives it.  Intensities are      *)
(* floats in the code; here they are integers in sixteenths of a hundredth *)
(* (0.01 is 16), so that the decay steps of 0.01 and the halvings of a     *)
(* spent desire are exact.  Times are seconds since the process began.     *)
(* main.py never calls register_agents nor start_autonomy_loop; the        *)
(* specifications of this part begin with one agent registered, as a       *)
(* caller of ChatManager.register_agents would leave it.                   *)
(***************************************************************************)
\* an intensity given in hundredths
Hundredths(n) == n * 16

\* enum DesireType
DesireTypes ==
    {"curiosity", "social", "expression", "influence", "observation", "challenge",
     "creation", "reflection"}
\* enum ActionType
ActionTypes ==
    {"initiate_chat", "respond_to_presence", "make_observation", "share_thought",
     "propose_topic", "create_in_world", "challenge_idea", "express_emotion"}

\* the user ids that connect and write
Users == {"u1"}
\* the hours (in tenths) decay_desires is called with
DecayHours == {1, 5, 10}

\* intensity=0.7 of the curiosity a new user raises
CuriosityIntensity == Hundredths(70)
\* intensity=0.4 of the social desire a conversation leaves
ConversationIntensity == Hundredths(40)
\* the 0.1 at or below which a desire is removed
ExpiredIntensity == Hundredths(10)
\* the 0.1 hours of decay of every awareness update, in tenths of an hour
AwarenessDecay == 1

\* Desire(type, intensity, target)
MakeDesire(type, intensity, target) ==
    [type |-> type, intensity |-> intensity, target |-> target]

\* Desire.decay(hours): max(0.0, intensity - 0.1 * hours), hours in tenths
DesireDecay_nofloor(d, h) == [d EXCEPT !.intensity = @ - Hundredths(h)]
DesireDecay_unassigned(d, h) == d
DesireDecay(d, h) == [d EXCEPT !.intensity = Max(0, @ - Hundredths(h))]

\* the filter of decay_desires: d.intensity > 0.1
Survives_atthreshold(d) == d.intensity >= ExpiredIntensity
Survives(d) == d.intensity > ExpiredIntensity

\* AgentAutonomy.decay_desires(hours) on the list ds
DecayDesires(ds, h) ==
    SelectSeq([i \in 1..Len(ds) |-> DesireDecay(ds[i], h)], Survives)

RECURSIVE UpdateAwareness_everylisted(_, _, _)
UpdateAwareness_everylisted(st, users, k) ==
    IF k > Len(users) THEN st
    ELSE UpdateAwareness_everylisted(
            [aware |-> IF \E i \in 1..Len(st.aware) : st.aware[i] = users[k]
                       THEN st.aware ELSE Append(st.aware, users[k]),
             desires |-> Append(st.desires,
                                MakeDesire("curiosity", CuriosityIntensity, users[k]))],
            users, k + 1)

RECURSIVE UpdateAwareness(_, _, _)
\* AgentAutonomy.update_awareness(users, agents, events): every user not yet
\* known is appended and raises a curiosity; st holds aware_of_users and
\* desires.  (The agents' states carry no is_speaking and the events the
\* ChatManager passes are user_joined or none: neither raises a desire.)
UpdateAwareness(st, users, k) ==
    IF k > Len(users) THEN st
    ELSE LET u == users[k]
             known == \E i \in 1..Len(st.aware) : st.aware[i] = u
             nxt == IF known THEN st
                    ELSE [aware |-> Append(st.aware, u),
                          desires |-> Append(st.desires,
                                             MakeDesire("curiosity", CuriosityIntensity, u))]
         IN UpdateAwareness(nxt, users, k + 1)

\* BaseAgent.update_world_awareness: update_awareness, then decay_desires(0.1)
UpdateWorldAwareness(aware, ds, users) ==
    LET st == UpdateAwareness([aware |-> aware, desires |-> ds], users, 1)
    IN [aware |-> st.aware, desires |-> DecayDesires(st.desires, AwarenessDecay)]

\* AgentAutonomy.can_act(target) of agent a at time t ("none" for no target)
CanAct(a, target, t) ==
    /\ t >= global_action_cooldown[a]
    /\ (target # "none" /\ target \in DOMAIN last_interaction_with[a]
            => t - last_interaction_with[a][target] >= TargetCooldownSeconds)

\* desire_actions of _select_action_type
DesireActions(type) ==
    CASE type = "curiosity" -> {"initiate_chat", "make_observation"}
      [] type = "social" -> {"initiate_chat", "share_thought"}
      [] type = "expression" -> {"share_thought", "express_emotion"}
      [] type = "influence" -> {"propose_topic", "create_in_world"}
      [] type = "observation" -> {"make_observation"}
      [] type = "challenge" -> {"challenge_idea", "initiate_chat"}
      [] type = "creation" -> {"create_in_world"}
      [] type = "reflection" -> {"share_thought"}
      [] OTHER -> {}

\* AutonomousAction(action_type, target, triggered_by)
MakeAction(type, target, by) ==
    [action_type |-> type, target |-> target, triggered_by |-> by]

\* _create_chat_action: the actions it can return for desire d (none if the
\* target is in its cooldown or there is nobody to talk to)
CreateChatAction(a, d, t) ==
    LET targets == IF d.target # "none" THEN {d.target}
                   ELSE {aware_of_users[a][i] : i \in 1..Len(aware_of_users[a])}
    IN {MakeAction("initiate_chat", x, d.type) : x \in {y \in targets : CanAct(a, y, t)}}

\* Python's None, as a return value
None == "None"

\* event.get(key) of a dict
EventGet(event, key) == IF key \in DOMAIN event THEN event[key] ELSE None

\* the event types _create_challenge_action finds something to challenge in
ChallengeableTypes == {"proposal_accepted", "thought_shared"}

\* _create_challenge_action: an action aimed at the author of one of the
\* proposal_accepted or thought_shared events of recent_events (no target
\* when the event names no author); None when there is no such event
CreateChallengeAction(d) ==
    {MakeAction("challenge_idea",
                IF EventGet(recent_events[i], "author") = None THEN "none"
                ELSE recent_events[i].author,
                d.type) :
        i \in {j \in 1..Len(recent_events) : recent_events[j].type \in ChallengeableTypes}}

\* _desire_to_action once _select_action_type has given `type`: the actions
\* it can return (the empty set when it returns None).  challenge_idea needs
\* a proposal_accepted or thought_shared event in recent_events, which no
\* caller of update_awareness supplies; propose_topic and create_in_world
\* have no branch.
CreateAction_allbuilt(a, d, type, t) ==
    CASE type = "initiate_chat" -> CreateChatAction(a, d, t)
      [] type = "make_observation" -> {MakeAction("make_observation", "none", d.type)}
      [] type = "challenge_idea" -> CreateChallengeAction(d)
      [] OTHER -> {MakeAction(type, "world", d.type)}
CreateAction(a, d, type, t) ==
    CASE type = "initiate_chat" -> CreateChatAction(a, d, t)
      [] type = "share_thought" -> {MakeAction("share_thought", "world", d.type)}
      [] type = "make_observation" -> {MakeAction("make_observation", "none", d.type)}
      [] type = "challenge_idea" -> CreateChallengeAction(d)
      [] type = "express_emotion" -> {MakeAction("express_emotion", "world", d.type)}
      [] OTHER -> {}

\* _desire_to_action: every action type of the desire may pass its random
\* trial, and the one chosen among the passers is built
DesireToAction(a, d, t) ==
    UNION {CreateAction(a, d, type, t) : type \in DesireActions(d.type)}

\* _generate_spontaneous_action: the weighted draw gives share_thought or
\* make_observation an action, every other type None
SpontaneousActions_anytype == {MakeAction(type, "world", "none") : type \in ActionTypes}
SpontaneousActions ==
    {MakeAction("share_thought", "world", "none"),
     MakeAction("make_observation", "none", "reflection")}

\* sorted(self.desires, key=intensity, reverse=True): the positions of ds in
\* that order (the sort is stable)
SortedDesires(ds) ==
    CHOOSE p \in [1..Len(ds) -> 1..Len(ds)] :
        /\ \A i, j \in 1..Len(ds) : i # j => p[i] # p[j]
        /\ \A i, j \in 1..Len(ds) :
              i < j => \/ ds[p[i]].intensity > ds[p[j]].intensity
                       \/ (ds[p[i]].intensity = ds[p[j]].intensity /\ p[i] < p[j])

\* decide_action of agent a at time t with the desire list ds: what it can
\* return and do.  `act` is the action returned, `spent` the position in ds
\* of the desire that triggered it (0 for a spontaneous action); an empty set
\* is the return of None.
DecideAction(a, ds, t) ==
    IF ~CanAct(a, "none", t) THEN {}
    ELSE IF ds = <<>> THEN {[act |-> x, spent |-> 0] : x \in SpontaneousActions}
    ELSE LET p == SortedDesires(ds)
             top == 1..Min(TopDesires, Len(ds))
         IN UNION {{[act |-> x, spent |-> p[k]] : x \in DesireToAction(a, ds[p[k]], t)} :
                     k \in top}

\* the history of returned actions after agent a was given action x at time t
Logged(log, x, t) ==
    [count |-> log.count + 1,
     at |-> t,
     by_target |-> IF x.target = "none" THEN log.by_target
                   ELSE (x.target :> t) @@ log.by_target]

\* the names of ChatManager.agents in the order of the dict
RegisteredAgents == SelectSeq(AgentNames, LAMBDA a : a \in chat_agents)

\* decide_action returned None: no action, made of no desire
NoAction == [action_type |-> None, target |-> "none", triggered_by |-> "none"]
NoDecision == [act |-> NoAction, spent |-> 0]

\* global_action_cooldown after decide_action at time t: set when an action
\* was made of a desire
CooldownAfter_always(cooldown, t, o) == t + GlobalCooldownSeconds
CooldownAfter(cooldown, t, o) ==
    IF o.spent = 0 THEN cooldown ELSE t + GlobalCooldownSeconds

\* the desires after decide_action: desire.intensity *= 0.5 on the desire
\* the action was made of
DesiresAfter_halveall(ds, o) ==
    IF o.spent = 0 THEN ds
    ELSE [i \in 1..Len(ds) |-> [ds[i] EXCEPT !.intensity = @ \div 2]]
DesiresAfter(ds, o) ==
    IF o.spent = 0 THEN ds ELSE [ds EXCEPT ![o.spent].intensity = @ \div 2]

\* decide_action of agent a at time t on the desire list ds ended with o:
\* None, a spontaneous action, or the action made of the desire ds[o.spent]
ApplyDecision(a, ds, t, o) ==
    /\ desires' = [desires EXCEPT ![a] = DesiresAfter(ds, o)]
    /\ global_action_cooldown' =
            [global_action_cooldown EXCEPT ![a] = CooldownAfter(@, t, o)]
    /\ last_interaction_with' =
            IF o.spent = 0 \/ o.act.target = "none" THEN last_interaction_with
            ELSE [last_interaction_with EXCEPT ![a] = (o.act.target :> t) @@ @]
    /\ action_log' =
            IF o = NoDecision THEN action_log
            ELSE [action_log EXCEPT ![a] = Logged(@, o.act, t)]

\* _check_all_agents_for_actions at time t for the registered agent: its
\* awareness is updated, its desires decay, then check_autonomous_action:
\* decide_action returns None, or an action (then executed by broadcasts)
CheckAllAgents(t) ==
    LET a == RegisteredAgents[1]
        w == UpdateWorldAwareness(aware_of_users[a], desires[a], active_users)
    IN /\ aware_of_users' = [aware_of_users EXCEPT ![a] = w.aware]
       /\ \E o \in {NoDecision} \cup DecideAction(a, w.desires, t) :
             ApplyDecision(a, w.desires, t, o)

\* register_agents was called with one agent of the orchestrator, and
\* set_claude_client with a client
ChatRegistered ==
    /\ chat_agents \in {{a} : a \in Agents}
    /\ claude_client = TRUE
    /\ active_users = <<>>
    /\ active_conversations = EmptyDict
    /\ autonomy_pc = "stopped"

\* every variable of the orchestrator, the agents, the tasks and the autonomy
model_vars ==
    <<orch_vars, agent_vars, task_vars, lifespan_pc, oracle, hist_vars, stop_fresh,
      chat_vars, autonomy_vars, now, action_log>>

\* the orchestrator's part of the state while only the chat manager runs
cycle_vars ==
    <<orch_vars, agent_vars, task_vars, lifespan_pc, oracle, hist_vars, stop_fresh,
      call_vars>>

\* start_autonomy_loop: the task is created and runs its first check
AutonomyStart ==
    /\ autonomy_pc = "stopped"
    /\ chat_agents # {}
    /\ CheckAllAgents(now)
    /\ autonomy_pc' = "sleeping"
    /\ UNCHANGED <<cycle_vars, chat_agents, active_users, now>>

\* _autonomy_loop: asyncio.sleep(interval) is over, the next check runs
AutonomyCheck ==
    /\ autonomy_pc = "sleeping"
    /\ now + CheckInterval <= TimeLimit
    /\ now' = now + CheckInterval
    /\ CheckAllAgents(now + CheckInterval)
    /\ UNCHANGED <<cycle_vars, chat_vars>>

\* user_connected(u): the user is registered and every registered agent's
\* awareness is updated
UserConnected ==
    \E u \in Users :
        /\ \A i \in 1..Len(active_users) : active_users[i] # u
        /\ active_users' = Append(active_users, u)
        /\ LET w == [a \in Agents |->
                        UpdateWorldAwareness(aware_of_users[a], desires[a],
                                             Append(active_users, u))]
           IN /\ aware_of_users' =
                    [a \in Agents |-> IF a \in chat_agents THEN w[a].aware
                                      ELSE aware_of_users[a]]
              /\ desires' =
                    [a \in Agents |-> IF a \in chat_agents THEN w[a].desires
                                      ELSE desires[a]]
        /\ UNCHANGED <<cycle_vars, chat_agents, autonomy_pc, last_interaction_with,
                       global_action_cooldown, now, action_log>>

\* send_user_message(u, a, message) answered: receive_user_message leaves a
\* social desire aimed at the user
UserMessage ==
    \E u \in Users : \E a \in chat_agents :
        /\ claude_client
        /\ Len(desires[a]) < MaxDesires
        /\ desires' = [desires EXCEPT
                          ![a] = Append(@, MakeDesire("social", ConversationIntensity, u))]
        /\ UNCHANGED <<cycle_vars, chat_vars, aware_of_users, last_interaction_with,
                       global_action_cooldown, now, action_log>>

InitAutonomy == InitState /\ AutonomyInit /\ CallInit /\ ChatRegistered /\ oracle \in FreeOracles

NextAutonomy ==
    \/ AutonomyStart
    \/ AutonomyCheck
    \/ UserConnected
    \/ UserMessage

SpecAutonomy == InitAutonomy /\ [][NextAutonomy]_vars

(***************************************************************************)
(* The autonomy loop while the user joins, says so again, leaves and       *)
(* comes back.                                                             *)
(***************************************************************************)
\* the seconds the autonomy loop runs for while the user comes and goes
MaxPresenceTime == 10

\* no debate cycle runs beside the loop, which stops at MaxPresenceTime
PresenceOracles ==
    {[types |-> {"ritual"}, votes |-> [a \in Agents |-> VoteRange(a)],
      fails |-> {1}, cycles |-> 1, seconds |-> MaxPresenceTime]}

\* user_connected(u) for a user already in active_users: the entry is
\* replaced where it is, and every registered agent's awareness is updated
UserConnectedAgain ==
    \E u \in Users :
        /\ \E i \in 1..Len(active_users) : active_users[i] = u
        /\ LET w == [a \in Agents |->
                        UpdateWorldAwareness(aware_of_users[a], desires[a], active_users)]
           IN /\ aware_of_users' =
                    [a \in Agents |-> IF a \in chat_agents THEN w[a].aware
                                      ELSE aware_of_users[a]]
              /\ desires' =
                    [a \in Agents |-> IF a \in chat_agents THEN w[a].desires
                                      ELSE desires[a]]
        /\ UNCHANGED <<cycle_vars, chat_vars, last_interaction_with,
                       global_action_cooldown, now, action_log>>

\* user_disconnected(u): self.active_users.pop(user_id, None)
UserDisconnected ==
    \E u \in Users :
        /\ active_users' = SelectSeq(active_users, LAMBDA x : x # u)
        /\ UNCHANGED <<cycle_vars, chat_agents, autonomy_pc, autonomy_vars, now,
                       action_log>>

NextPresence ==
    \/ AutonomyStart
    \/ AutonomyCheck
    \/ UserConnected
    \/ UserConnectedAgain
    \/ UserDisconnected
    \/ UserMessage

InitPresence ==
    InitState /\ AutonomyInit /\ CallInit /\ ChatRegistered /\ oracle \in PresenceOracles

SpecPresence == InitPresence /\ [][NextPresence]_vars

(***************************************************************************)
(* AgentAutonomy.add_desire and decay_desires driven alone on one agent.   *)
(***************************************************************************)
\* the intensities (in hundredths) add_desire is called with
DesireIntensities == {5, 10, 11, 15, 20, 40, 50, 70, 90, 100}

\* autonomy.add_desire(type, intensity, target) on a registered agent
AddDesireCall ==
    \E a \in chat_agents : \E n \in DesireIntensities :
        /\ Len(desires[a]) < MaxDesires + 1
        /\ desires' = [desires EXCEPT
                          ![a] = Append(@, MakeDesire("reflection", Hundredths(n), "none"))]
        /\ UNCHANGED <<cycle_vars, chat_vars, aware_of_users, last_interaction_with,
                       global_action_cooldown, now, action_log>>

\* autonomy.decay_desires(hours) on a registered agent
DecayDesiresCall ==
    \E a \in chat_agents : \E h \in DecayHours :
        /\ desires[a] # <<>>
        /\ desires' = [desires EXCEPT ![a] = DecayDesires(@, h)]
        /\ UNCHANGED <<cycle_vars, chat_vars, aware_of_users, last_interaction_with,
                       global_action_cooldown, now, action_log>>

NextDecay == AddDesireCall \/ DecayDesiresCall

SpecDecay == InitAutonomy /\ [][NextDecay]_vars

(***************************************************************************)
(* AgentAutonomy.decide_action called once on a registered agent whose     *)
(* desires, cooldown and interaction times are whatever add_desire and     *)
(* earlier decisions can have left.                                        *)
(***************************************************************************)
\* the longest desire list decide_action is called on
MaxDecideDesires == 4

\* the desires add_desire has left: two aimed at the user, one whose type
\* has no action to build, two of the same intensity
DecideDesires ==
    {MakeDesire("curiosity", CuriosityIntensity, "u1"),
     MakeDesire("social", ConversationIntensity, "u1"),
     MakeDesire("expression", ConversationIntensity, "none"),
     MakeDesire("influence", Hundredths(90), "none"),
     MakeDesire("reflection", Hundredths(80), "none"),
     MakeDesire("observation", Hundredths(20), "none")}

\* self.desires when decide_action is called
DecideDesireLists ==
    UNION {[1..n -> DecideDesires] : n \in 0..MaxDecideDesires}

\* decide_action() of a registered agent at the current time: the fields it
\* found and the action it returned are kept in `decision`
DecideActionCall ==
    \E a \in chat_agents :
        /\ decision = NoCall
        /\ \E o \in {NoDecision} \cup DecideAction(a, desires[a], now) :
              /\ ApplyDecision(a, desires[a], now, o)
              /\ decision' =
                    [agent |-> a, at |-> now, desires |-> desires[a],
                     global_action_cooldown |-> global_action_cooldown[a],
                     last_interaction_with |-> last_interaction_with[a],
                     returned |-> o.act]
        /\ UNCHANGED <<more_call_vars,
                       orch_vars, agent_vars, task_vars, lifespan_pc, oracle,
                       hist_vars, stop_fresh, chat_vars, aware_of_users, now,
                       evaluation, tick_vars, claude_client, active_conversations,
                       chat_call, ws_vars>>

\* the agent has some desires, knows the user or not, is inside its global
\* cooldown, at its end or past it, and has addressed the user never, 30
\* seconds ago or 10 seconds ago
InitDecide ==
    /\ InitState /\ CallInit /\ ChatRegistered /\ oracle \in FreeOracles
    /\ now = MaxTime
    /\ \E ds \in DecideDesireLists :
          desires = [a \in Agents |-> IF a \in chat_agents THEN ds ELSE <<>>]
    /\ \E aw \in {<<>>, <<"u1">>} :
          aware_of_users = [a \in Agents |-> IF a \in chat_agents THEN aw ELSE <<>>]
    /\ \E c \in {0, MaxTime, MaxTime + CheckInterval} :
          global_action_cooldown = [a \in Agents |-> IF a \in chat_agents THEN c ELSE 0]
    /\ \E l \in {EmptyDict, "u1" :> (MaxTime - TargetCooldownSeconds),
                 "u1" :> (MaxTime - GlobalCooldownSeconds)} :
          last_interaction_with =
              [a \in Agents |-> IF a \in chat_agents THEN l ELSE EmptyDict]
    /\ action_log = [a \in Agents |-> [count |-> 0, at |-> 0, by_target |-> EmptyDict]]

NextDecide == DecideActionCall

SpecDecide == InitDecide /\ [][NextDecide]_vars

(***************************************************************************)
(* The polling tick's update_world_awareness, add_desire and decide_action *)
(* called in any order on one registered agent within one instant of the   *)
(* clock (the global cooldown then allows one action made of a desire);    *)
(* every desire carries the serial number it was given when created.       *)
(***************************************************************************)
\* how many desires add_desire is called for in a run
MaxTickDesires == 1
\* how many actions decide_action returns in a run
MaxTickActions == 2

\* the desires add_desire is called with: the one a user's message leaves,
\* and reflections of a low and a middle intensity
TickDesires ==
    {MakeDesire("social", ConversationIntensity, "u1")}
        \cup {MakeDesire("reflection", Hundredths(n), "none") : n \in {20, 50}}

\* every desire of ds with its serial number
WithIds(ds, ids) == [i \in 1..Len(ds) |-> [id |-> ids[i], desire |-> ds[i]]]

\* agent.update_world_awareness(users, agents, []) on a registered agent: a
\* user not yet known raises a curiosity, every desire decays by 0.1 hours
\* and those at or below 0.1 are removed
UpdateWorldAwarenessCall ==
    \E a \in chat_agents : \E users \in {<<>>, <<"u1">>} :
        LET st == UpdateAwareness([aware |-> aware_of_users[a], desires |-> desires[a]],
                                  users, 1)
            w == UpdateWorldAwareness(aware_of_users[a], desires[a], users)
            fresh == Len(st.desires) - Len(desires[a])
            ids == desire_ids \o [i \in 1..fresh |-> ids_made + i]
            decayed == [i \in 1..Len(st.desires) |->
                           DesireDecay(st.desires[i], AwarenessDecay)]
            kept == SelectSeq(WithIds(decayed, ids), LAMBDA p : Survives(p.desire))
        IN /\ aware_of_users' = [aware_of_users EXCEPT ![a] = w.aware]
           /\ desires' = [desires EXCEPT ![a] = w.desires]
           /\ desire_ids' = [i \in 1..Len(kept) |-> kept[i].id]
           /\ ids_made' = ids_made + fresh
           /\ UNCHANGED <<more_call_vars,
                          orch_vars, agent_vars, task_vars, lifespan_pc, oracle,
                          hist_vars, stop_fresh, chat_vars, last_interaction_with,
                          global_action_cooldown, now, action_log, evaluation,
                          decision, claude_client, active_conversations, chat_call,
                          ws_vars>>

\* autonomy.add_desire(type, intensity, target) on a registered agent
AddDesireTickCall ==
    \E a \in chat_agents : \E d \in TickDesires :
        /\ ids_made < MaxTickDesires
        /\ desires' = [desires EXCEPT ![a] = Append(@, d)]
        /\ desire_ids' = Append(desire_ids, ids_made + 1)
        /\ ids_made' = ids_made + 1
        /\ UNCHANGED <<more_call_vars,
                       orch_vars, agent_vars, task_vars, lifespan_pc, oracle,
                       hist_vars, stop_fresh, chat_vars, aware_of_users,
                       last_interaction_with, global_action_cooldown, now, action_log,
                       evaluation, decision, claude_client, active_conversations,
                       chat_call, ws_vars>>

\* agent.check_autonomous_action() of the tick: decide_action at the current
\* time; an action returned halves the desire it was made of
DecideActionTickCall ==
    \E a \in chat_agents :
        /\ action_log[a].count < MaxTickActions
        /\ \E o \in DecideAction(a, desires[a], now) : ApplyDecision(a, desires[a], now, o)
        /\ UNCHANGED <<more_call_vars,
                       orch_vars, agent_vars, task_vars, lifespan_pc, oracle,
                       hist_vars, stop_fresh, chat_vars, aware_of_users, now,
                       call_vars>>

InitTicks == InitAutonomy

NextTicks ==
    \/ UpdateWorldAwarenessCall
    \/ AddDesireTickCall
    \/ DecideActionTickCall

\* the polling loop, once started, calls update_world_awareness on every
\* agent every interval for as long as the process runs
SpecTicks == InitTicks /\ [][NextTicks]_vars /\ WF_vars(UpdateWorldAwarenessCall)

(***************************************************************************)
(* AgentAutonomy.update_awareness called with lists of events on one       *)
(* registered agent; every event carries the serial number of its arrival. *)
(***************************************************************************)
\* the 50 of self.recent_events[-50:]
RecentEventsKept == 50
\* how many events are given in a run
MaxEvents == 120
\* the lengths of the event lists of a call: none, one, a few, more than
\* the buffer holds
EventBatches == {0, 1, 3, 60}

\* self.recent_events[-50:]
KeepRecent_oldest(events) == SubSeq(events, 1, Min(Len(events), RecentEventsKept))
KeepRecent(events) ==
    SubSeq(events, Max(1, Len(events) - RecentEventsKept + 1), Len(events))

\* an event of a type _process_event has no branch for
JoinedEvent(serial) == [serial |-> serial, type |-> "user_joined"]

\* autonomy.update_awareness([], {}, events) on the registered agent: every
\* event is appended, then the buffer is cut to its last 50
UpdateAwarenessEventsCall ==
    \E n \in EventBatches :
        /\ events_received + n <= MaxEvents
        /\ LET events == [i \in 1..n |-> JoinedEvent(events_received + i)]
           IN recent_events' = KeepRecent(recent_events \o events)
        /\ events_received' = events_received + n
        /\ UNCHANGED <<model_vars, evaluation, decision, tick_vars, claude_client,
                       active_conversations, chat_call, ws_vars, para_vars,
                       agent_chats, loop_vars>>

NextEvents == UpdateAwarenessEventsCall

SpecEvents == InitAutonomy /\ [][NextEvents]_vars

(***************************************************************************)
(* update_world_awareness with events of every type, add_desire with       *)
(* desires of every kind and decide_action, called in any order on one     *)
(* registered agent while the clock advances.                              *)
(***************************************************************************)
\* how many events are given in a run
MaxUrgeEvents == 2
\* how many desires add_desire is called for in a run
MaxUrgeDesires == 2
\* how many actions decide_action returns in a run
MaxUrgeActions == 2
\* how many polling intervals the clock advances
MaxUrgeTicks == 2

\* intensity=0.6 of the social desire an accepted proposal may raise
AcknowledgeIntensity == Hundredths(60)
\* intensity=0.4 of the observation a new structure raises
StructureIntensity == Hundredths(40)
\* intensity=0.9 of the social desire a user's message raises
AddressedIntensity == Hundredths(90)

\* the events update_awareness is called with, the k-th of the run
UrgeEvents(k) ==
    {[serial |-> k, type |-> "proposal_accepted", proposer |-> "Veridicus",
      author |-> "Veridicus"],
     [serial |-> k, type |-> "thought_shared"],
     [serial |-> k, type |-> "structure_created"],
     [serial |-> k, type |-> "user_message", to |-> "all", from |-> "u1"]}

\* _process_event of agent a: the lists of desires it can add (the
\* acknowledgement of a proposal is added with probability 0.3)
ProcessEvent(a, event) ==
    CASE event.type = "proposal_accepted" ->
            IF EventGet(event, "proposer") # a
            THEN {<<>>, <<MakeDesire("social", AcknowledgeIntensity, event.proposer)>>}
            ELSE {<<>>}
      [] event.type = "structure_created" ->
            {<<MakeDesire("observation", StructureIntensity, "none")>>}
      [] event.type = "user_message" ->
            IF EventGet(event, "to") \in {a, "all"}
            THEN {<<MakeDesire("social", AddressedIntensity, EventGet(event, "from"))>>}
            ELSE {<<>>}
      [] OTHER -> {<<>>}

\* the desires add_desire is called with: the two kinds no action is built
\* for, one of them about to expire, and a challenge
UrgeDesires ==
    {MakeDesire("influence", Hundredths(90), "none"),
     MakeDesire("creation", Hundredths(11), "none"),
     MakeDesire("challenge", Hundredths(80), "none")}

\* agent.update_world_awareness([], {}, [event]) on the registered agent: the
\* event is kept and processed, then every desire decays by 0.1 hours
UrgeAwarenessCall ==
    \E a \in chat_agents : \E event \in UrgeEvents(events_received + 1) :
      \E added \in ProcessEvent(a, event) :
        /\ events_received < MaxUrgeEvents
        /\ recent_events' = KeepRecent(Append(recent_events, event))
        /\ events_received' = events_received + 1
        /\ desires' = [desires EXCEPT ![a] = DecayDesires(@ \o added, AwarenessDecay)]
        /\ UNCHANGED <<para_vars, agent_chats, loop_vars,
                       orch_vars, agent_vars, task_vars, lifespan_pc, oracle,
                       hist_vars, stop_fresh, chat_vars, aware_of_users,
                       last_interaction_with, global_action_cooldown, now, action_log,
                       evaluation, decision, tick_vars, claude_client,
                       active_conversations, chat_call, ws_vars>>

\* autonomy.add_desire(type, intensity) on the registered agent
UrgeAddDesireCall ==
    \E a \in chat_agents : \E d \in UrgeDesires :
        /\ ids_made < MaxUrgeDesires
        /\ desires' = [desires EXCEPT ![a] = Append(@, d)]
        /\ ids_made' = ids_made + 1
        /\ UNCHANGED <<more_call_vars,
                       orch_vars, agent_vars, task_vars, lifespan_pc, oracle,
                       hist_vars, stop_fresh, chat_vars, aware_of_users,
                       last_interaction_with, global_action_cooldown, now, action_log,
                       evaluation, decision, desire_ids, claude_client,
                       active_conversations, chat_call, ws_vars>>

\* decide_action() of the registered agent at the current time; what it
\* returned is kept in `decision`
UrgeDecideCall ==
    \E a \in chat_agents :
        /\ action_log[a].count < MaxUrgeActions
        /\ \E o \in {NoDecision} \cup DecideAction(a, desires[a], now) :
              /\ ApplyDecision(a, desires[a], now, o)
              /\ decision' =
                    [agent |-> a, at |-> now, desires |-> desires[a],
                     global_action_cooldown |-> global_action_cooldown[a],
                     last_interaction_with |-> last_interaction_with[a],
                     returned |-> o.act]
        /\ UNCHANGED <<more_call_vars,
                       orch_vars, agent_vars, task_vars, lifespan_pc, oracle,
                       hist_vars, stop_fresh, chat_vars, aware_of_users, now,
                       evaluation, tick_vars, claude_client, active_conversations,
                       chat_call, ws_vars>>

\* the global cooldown of an action passes
UrgeSleep ==
    /\ now < MaxUrgeTicks * GlobalCooldownSeconds
    /\ now' = now + GlobalCooldownSeconds
    /\ UNCHANGED <<orch_vars, agent_vars, task_vars, lifespan_pc, oracle, hist_vars,
                   stop_fresh, chat_vars, autonomy_vars, action_log, call_vars>>

NextUrges ==
    \/ UrgeAwarenessCall
    \/ UrgeAddDesireCall
    \/ UrgeDecideCall
    \/ UrgeSleep

\* Axioma is the registered agent: the proposals it hears of are another's
InitUrges == InitAutonomy /\ chat_agents = {"Axioma"}

SpecUrges == InitUrges /\ [][NextUrges]_vars

(***************************************************************************)
(* start_autonomy_loop and stop_autonomy_loop called by any tasks in any   *)
(* order while the _autonomy_loop tasks they create run on the event loop. *)
(* A step of a task is what it does between two of its awaits.             *)
(***************************************************************************)
\* the _autonomy_loop tasks created in a run
MaxLoopTasks == 3
\* the stop_autonomy_loop calls suspended at one time
MaxStopCalls == 2
\* the polls of the agents in a run
MaxPolls == 3

\* asyncio.create_task(self._autonomy_loop(...)): the task has not run yet
NewLoopTask == [at |-> "created", must_cancel |-> FALSE]

\* the tasks that will go on with their loop: not finished, no cancellation
\* waiting to be thrown into them
ActiveLoops ==
    {k \in 1..Len(loop_tasks) : loop_tasks[k].at # "done" /\ ~loop_tasks[k].must_cancel}

\* start_autonomy_loop: `if self._autonomy_running: return`
StartAllowed_always(running) == TRUE
StartAllowed(running) == ~running

\* start_autonomy_loop(): no await, the test, the flag and create_task are
\* one step of the caller; a no-op while the flag is set
StartAutonomyLoop ==
    /\ Len(loop_tasks) < MaxLoopTasks
    /\ IF StartAllowed(autonomy_running)
       THEN /\ autonomy_running' = TRUE
            /\ loop_tasks' = Append(loop_tasks, NewLoopTask)
            /\ autonomy_task' = Len(loop_tasks) + 1
            /\ quiet' = FALSE
       ELSE UNCHANGED <<autonomy_running, loop_tasks, autonomy_task, quiet>>
    /\ UNCHANGED <<stop_calls, polls, model_vars, call_vars_but_loop>>

\* stop_autonomy_loop() up to its await: the flag is cleared and the task
\* cancelled; awaiting a task that is already done (or no task) does not
\* suspend, so the call returns in the same step
StopAutonomyLoop ==
    /\ autonomy_running' = FALSE
    /\ IF autonomy_task = 0 \/ loop_tasks[autonomy_task].at = "done"
       THEN /\ quiet' = TRUE
            /\ UNCHANGED <<loop_tasks, stop_calls>>
       ELSE /\ Cardinality(stop_calls) < MaxStopCalls
            /\ loop_tasks' = [loop_tasks EXCEPT ![autonomy_task].must_cancel = TRUE]
            /\ stop_calls' =
                    stop_calls \cup {[awaits |-> autonomy_task, made |-> Len(loop_tasks)]}
            /\ UNCHANGED quiet
    /\ UNCHANGED <<autonomy_task, polls, model_vars, call_vars_but_loop>>

\* `await self._autonomy_task` is over: the task is done, CancelledError is
\* passed over and stop_autonomy_loop returns
StopReturns ==
    \E call \in stop_calls :
        /\ loop_tasks[call.awaits].at = "done"
        /\ stop_calls' = stop_calls \ {call}
        /\ quiet' = (quiet \/ call.made = Len(loop_tasks))
        /\ UNCHANGED <<autonomy_running, autonomy_task, loop_tasks, polls, model_vars,
                       call_vars_but_loop>>

\* the awaits an iteration of _autonomy_loop can be suspended at once the
\* agents were polled: an action's execution inside
\* _check_all_agents_for_actions, the sleep of the try block, or the sleep
\* of `except Exception`
LoopAwaits == {"checking", "sleeping", "error_sleep"}

\* the event loop resumes task k.  A cancellation is thrown at the await the
\* task is suspended at (a task that never ran is just dropped): inside the
\* try block `except asyncio.CancelledError: break` ends the loop, in the
\* handler's sleep it leaves the coroutine.  Otherwise the task goes on:
\* after a sleep `while self._autonomy_running` is tested and the agents are
\* polled, after an action's execution the next agent is polled or the
\* sleep begins
LoopStep ==
    \E k \in 1..Len(loop_tasks) :
        LET task == loop_tasks[k]
        IN /\ task.at # "done"
           /\ IF task.must_cancel
              THEN /\ loop_tasks' = [loop_tasks EXCEPT ![k] = [at |-> "done",
                                                             must_cancel |-> FALSE]]
                   /\ UNCHANGED polls
              ELSE IF task.at = "checking"
              THEN \/ /\ polls.count < MaxPolls
                      /\ polls' = [count |-> polls.count + 1, by |-> k]
                      /\ UNCHANGED loop_tasks
                   \/ /\ \E nxt \in {"sleeping", "error_sleep"} :
                            loop_tasks' = [loop_tasks EXCEPT ![k].at = nxt]
                      /\ UNCHANGED polls
              ELSE IF ~autonomy_running
              THEN /\ loop_tasks' = [loop_tasks EXCEPT ![k].at = "done"]
                   /\ UNCHANGED polls
              ELSE /\ polls.count < MaxPolls
                   /\ polls' = [count |-> polls.count + 1, by |-> k]
                   /\ \E nxt \in LoopAwaits :
                         loop_tasks' = [loop_tasks EXCEPT ![k].at = nxt]
           /\ UNCHANGED <<autonomy_running, autonomy_task, stop_calls, quiet, model_vars,
                          call_vars_but_loop>>

NextLoop ==
    \/ StartAutonomyLoop
    \/ StopAutonomyLoop
    \/ StopReturns
    \/ LoopStep

SpecLoop == InitAutonomy /\ [][NextLoop]_vars

(***************************************************************************)
(* Paradoxia.metamorphose called on a Paradoxia that earlier calls have    *)
(* left with some chaos level and traits.                                  *)
(***************************************************************************)
\* how many times metamorphose is called in a run
MaxMetamorphoses == 2

\* the names of self.traits
TraitNames == DOMAIN ParadoxiaTraits

\* modify_trait(trait_name, delta) on the dict ts
ModifyTrait_unclamped(ts, trait_name, delta) ==
    IF trait_name \in DOMAIN ts THEN [ts EXCEPT ![trait_name] = @ + delta] ELSE ts
ModifyTrait(ts, trait_name, delta) ==
    IF trait_name \in DOMAIN ts
    THEN [ts EXCEPT ![trait_name] = Max(0, Min(100, @ + delta))]
    ELSE ts

\* the samples random.sample(list(self.traits.keys()), 3) gives that are
\* explored: three different traits, in the order drawn
TraitSamples ==
    {<<"chaotic", "subversive", "playful">>, <<"playful", "disruptive", "creative">>,
     <<"boundary_crossing", "chaotic", "disruptive">>,
     <<"intuitive", "transformative", "adaptive">>}
\* the values of random.uniform(-0.2, 0.2) and random.uniform(-0.3, 0.3)
\* that are explored: both ends and one between
TraitDeltas == {-20, 5, 20}
ChaosDeltas == {-30, 10, 30}

\* min(MAX_CHAOS, max(MIN_CHAOS, chaos_level + delta))
ShiftChaos(level, delta) == Min(MaxChaos, Max(MinChaos, level + delta))

\* metamorphose(): the count goes up, three sampled traits are modified one
\* after the other, the chaos level is shifted
Metamorphose ==
    /\ metamorphosis_count < MaxMetamorphoses
    /\ metamorphosis_count' = metamorphosis_count + 1
    /\ \E sample \in TraitSamples : \E d \in [1..3 -> TraitDeltas] :
          traits' = ModifyTrait(ModifyTrait(ModifyTrait(traits, sample[1], d[1]),
                                            sample[2], d[2]),
                                sample[3], d[3])
    /\ \E delta \in ChaosDeltas : chaos_level' = ShiftChaos(chaos_level, delta)
    /\ UNCHANGED <<model_vars, call_vars_but_paradoxia>>

\* a Paradoxia after some calls: the chaos level near either end or as
\* constructed, the traits as constructed or with one that has sunk low
InitMetamorphose ==
    /\ InitState /\ AutonomyInit /\ OtherCallsInit /\ ChatInit
    /\ oracle \in FreeOracles
    /\ chaos_level \in {MinChaos + 10, InitialChaos, MaxChaos - 10}
    /\ traits \in {ParadoxiaTraits, [ParadoxiaTraits EXCEPT !.disruptive = 10]}
    /\ metamorphosis_count = 0

NextMetamorphose == Metamorphose

SpecMetamorphose == InitMetamorphose /\ [][NextMetamorphose]_vars

(***************************************************************************)
(* The orchestrator task, the autonomy loop task and the chat requests     *)
(* side by side.                                                           *)
(***************************************************************************)
InitTasks == InitState /\ AutonomyInit /\ CallInit /\ ChatRegistered /\ oracle \in TasksOracles

NextTasks == Next \/ NextAutonomy

SpecTasks == InitTasks /\ [][NextTasks]_vars

(***************************************************************************)
(* ChatManager.send_user_message, initiate_agent_conversation and          *)
(* continue_agent_conversation, each called to its end by a caller that    *)
(* may or may not have registered agents and set the client.               *)
(***************************************************************************)
\* the conversations started in a run
MaxConversations == 2
\* the messages of one conversation
MaxMessages == 4

\* the agent ids a caller may pass: the agents' and one that is nobody's
AgentIds == Agents \cup {"nobody"}
\* the user ids a caller may pass: a connected user's or any other string
UserIds == Users \cup {"stranger"}
\* the conversation ids a caller may pass
ConversationIds == {Uuid(k) : k \in 1..(MaxConversations + 1)}

\* a method returned `value` to its caller
Returned(fn, args, value) ==
    [fn |-> fn, args |-> args, outcome |-> "returned", value |-> value]
\* an exception left the method
Raised(fn, args, error) ==
    [fn |-> fn, args |-> args, outcome |-> "raised", value |-> error]

\* send_user_message(user_id, agent_id, message); `fails` is whether the
\* text generation of receive_user_message raises
SendUserMessage ==
    \E user_id \in UserIds : \E agent_id \in AgentIds : \E fails \in BOOLEAN :
        LET args == <<user_id, agent_id>>
            answered == agent_id \in chat_agents /\ claude_client /\ ~fails
        IN /\ (answered => Len(desires[agent_id]) < MaxDesires)
           /\ chat_call' = Returned("send_user_message", args,
                                    IF answered THEN "response" ELSE None)
           /\ desires' =
                IF answered
                THEN [desires EXCEPT
                        ![agent_id] = Append(@, MakeDesire("social",
                                                           ConversationIntensity, user_id))]
                ELSE desires
           /\ UNCHANGED <<more_call_vars,
                          orch_vars, agent_vars, task_vars, lifespan_pc, oracle,
                          hist_vars, stop_fresh, chat_vars, aware_of_users,
                          last_interaction_with, global_action_cooldown, now,
                          action_log, evaluation, decision, tick_vars,
                          claude_client, active_conversations,
                          ws_vars>>

\* initiate_agent_conversation(initiator_id, target_id, topic); `fails` is
\* the text generation that raises: the opener's, the response's or none
InitiateAgentConversation ==
    \E initiator_id \in AgentIds : \E target_id \in AgentIds :
      \E fails \in {"opener", "response", "none"} :
        LET args == <<initiator_id, target_id>>
            known == initiator_id \in chat_agents /\ target_id \in chat_agents
            started == known /\ claude_client /\ fails # "opener"
            conv_id == Uuid(uuid_count + 1)
        IN /\ (started => uuid_count < MaxConversations)
           /\ uuid_count' = IF started THEN uuid_count + 1 ELSE uuid_count
           /\ active_conversations' =
                IF started
                THEN (conv_id :> [participants |-> <<initiator_id, target_id>>,
                                  message_count |-> IF fails = "none" THEN 2 ELSE 1])
                        @@ active_conversations
                ELSE active_conversations
           /\ chat_call' = Returned("initiate_agent_conversation", args,
                                    IF started /\ fails = "none" THEN conv_id ELSE None)
           /\ UNCHANGED <<more_call_vars,
                          orch_vars, agent_vars, task_vars, lifespan_pc, oracle,
                          in_flight, phase_log, cycle_snapshot, stop_fresh, chat_vars,
                          autonomy_vars, now, action_log, evaluation, decision, tick_vars,
                          claude_client,
                          ws_vars>>

\* [p for p in participants if p != speaker_id]
Others(participants, speaker_id) ==
    SelectSeq(participants, LAMBDA p : p # speaker_id)

\* continue_agent_conversation(conversation_id, speaker_id, message); `fails`
\* is whether the listener's text generation raises
ContinueAgentConversation ==
    \E conversation_id \in ConversationIds : \E speaker_id \in AgentIds :
      \E fails \in BOOLEAN :
        LET args == <<conversation_id, speaker_id>>
            fn == "continue_agent_conversation"
        IN /\ IF conversation_id \notin DOMAIN active_conversations
              THEN /\ chat_call' = Returned(fn, args, None)
                   /\ UNCHANGED active_conversations
              ELSE LET conv == active_conversations[conversation_id]
                       others == Others(conv.participants, speaker_id)
                   IN IF \A i \in 1..Len(conv.participants) :
                             conv.participants[i] # speaker_id
                      THEN /\ chat_call' = Returned(fn, args, None)
                           /\ UNCHANGED active_conversations
                      ELSE IF others = <<>>
                      THEN \* [...][0] of an empty list: IndexError, outside the try
                           /\ chat_call' = Raised(fn, args, "IndexError")
                           /\ UNCHANGED active_conversations
                      ELSE IF \/ speaker_id \notin chat_agents
                              \/ others[1] \notin chat_agents
                              \/ ~claude_client
                              \/ fails
                      THEN /\ chat_call' = Returned(fn, args, None)
                           /\ UNCHANGED active_conversations
                      ELSE /\ conv.message_count < MaxMessages
                           /\ chat_call' = Returned(fn, args, "response")
                           /\ active_conversations' =
                                [active_conversations EXCEPT
                                    ![conversation_id].message_count = @ + 1]
           /\ UNCHANGED <<more_call_vars,
                          model_vars, evaluation, decision, tick_vars, claude_client, ws_vars>>

\* the caller registered two agents, or none; it set the client, or not
InitChat ==
    /\ InitState /\ AutonomyInit /\ CallInit
    /\ chat_agents \in {{}, {"Axioma", "Veridicus"}}
    /\ claude_client \in BOOLEAN
    /\ active_users = <<>>
    /\ active_conversations = EmptyDict
    /\ autonomy_pc = "stopped"
    /\ oracle \in FreeOracles

NextChat ==
    \/ SendUserMessage
    \/ InitiateAgentConversation
    \/ ContinueAgentConversation

SpecChat == InitChat /\ [][NextChat]_vars

(***************************************************************************)
(* initiate_agent_conversation and continue_agent_conversation called on   *)
(* two registered agents with the client set, every agent_chat broadcast   *)
(* counted per conversation id.                                            *)
(***************************************************************************)
\* the conversations started in a run
MaxTalks == 2
\* the agent_chat broadcasts of one conversation in a run
MaxTalkChats == 6

\* the agents the caller registered
Talkers == {"Axioma", "Veridicus"}

\* initiate_agent_conversation(initiator_id, target_id) between registered
\* agents: the conversation is registered once the opening is generated,
\* the opening is broadcast, then the reply is generated, counted and
\* broadcast; `fails` is the text generation that raises, if any
InitiateTalk ==
    \E initiator_id \in Talkers : \E target_id \in Talkers \ {initiator_id} :
      \E fails \in {"opener", "response", "none"} :
        LET conv_id == Uuid(uuid_count + 1)
            started == fails # "opener"
        IN /\ uuid_count < MaxTalks
           /\ uuid_count' = IF started THEN uuid_count + 1 ELSE uuid_count
           /\ active_conversations' =
                IF started
                THEN (conv_id :> [participants |-> <<initiator_id, target_id>>,
                                  message_count |-> IF fails = "none" THEN 2 ELSE 1])
                        @@ active_conversations
                ELSE active_conversations
           /\ agent_chats' =
                IF started
                THEN (conv_id :> (IF fails = "none" THEN 2 ELSE 1)) @@ agent_chats
                ELSE agent_chats
           /\ chat_call' = Returned("initiate_agent_conversation",
                                    <<initiator_id, target_id>>,
                                    IF started /\ fails = "none" THEN conv_id ELSE None)
           /\ UNCHANGED <<event_vars, para_vars, loop_vars,
                          orch_vars, agent_vars, task_vars, lifespan_pc, oracle,
                          in_flight, phase_log, cycle_snapshot, stop_fresh, chat_vars,
                          autonomy_vars, now, action_log, evaluation, decision, tick_vars,
                          claude_client, ws_vars>>

\* continue_agent_conversation(conversation_id, speaker_id, message) on a
\* registered conversation by one of its participants: the speaker's message
\* is broadcast, the listener's response generated, message_count
\* incremented and the response broadcast; `fails` is whether the
\* generation raises
ContinueTalk ==
    \E conversation_id \in DOMAIN active_conversations : \E speaker_id \in Talkers :
      \E fails \in BOOLEAN :
        /\ agent_chats[conversation_id] + 2 <= MaxTalkChats
        /\ chat_call' = Returned("continue_agent_conversation",
                                 <<conversation_id, speaker_id>>,
                                 IF fails THEN None ELSE "response")
        /\ active_conversations' =
                IF fails THEN active_conversations
                ELSE [active_conversations EXCEPT ![conversation_id].message_count = @ + 1]
        /\ agent_chats' =
                [agent_chats EXCEPT ![conversation_id] = @ + (IF fails THEN 1 ELSE 2)]
        /\ UNCHANGED <<event_vars, para_vars, loop_vars,
                       model_vars, evaluation, decision, tick_vars, claude_client,
                       ws_vars>>

InitTalk ==
    /\ InitState /\ AutonomyInit /\ CallInit
    /\ chat_agents = Talkers
    /\ claude_client = TRUE
    /\ active_users = <<>>
    /\ active_conversations = EmptyDict
    /\ autonomy_pc = "stopped"
    /\ oracle \in FreeOracles

NextTalk ==
    \/ InitiateTalk
    \/ ContinueTalk

SpecTalk == InitTalk /\ [][NextTalk]_vars

(***************************************************************************)
(* ConnectionManager: connect, disconnect and broadcast, run by tasks of   *)
(* one event loop.  A task is suspended only at an await: at the lock when *)
(* it is taken, and at each send_text.                                     *)
(***************************************************************************)
\* the broadcasts of a run
MaxBroadcasts == 3

\* asyncio.Lock.acquire returns at once when the lock is free and nobody waits
LockFree == ws_lock.holder = "none" /\ ws_lock.waiters = <<>>
\* asyncio.Lock.acquire of task t when it has to wait
Enqueued(t) == [ws_lock EXCEPT !.waiters = Append(@, t)]
\* asyncio.Lock.release: the first waiter, if any, is woken with the lock
Released ==
    IF ws_lock.waiters = <<>> THEN Unlocked
    ELSE [holder |-> Head(ws_lock.waiters), waiters |-> Tail(ws_lock.waiters)]

\* connect(websocket): accept, then add under the lock
Connect(w) ==
    /\ ws_pc[w] = "fresh"
    /\ IF LockFree
       THEN /\ active_connections' = active_connections \cup {w}
            /\ ws_pc' = [ws_pc EXCEPT ![w] = "connected"]
            /\ UNCHANGED ws_lock
       ELSE /\ ws_lock' = Enqueued(w)
            /\ ws_pc' = [ws_pc EXCEPT ![w] = "connect_lock"]
            /\ UNCHANGED active_connections
    /\ UNCHANGED <<broadcast, ws_removed, msg_count>>

\* connect resumed with the lock
ConnectLocked(w) ==
    /\ ws_pc[w] = "connect_lock"
    /\ ws_lock.holder = w
    /\ active_connections' = active_connections \cup {w}
    /\ ws_lock' = Released
    /\ ws_pc' = [ws_pc EXCEPT ![w] = "connected"]
    /\ UNCHANGED <<broadcast, ws_removed, msg_count>>

\* disconnect(websocket), called by websocket_endpoint when the socket closes
Disconnect(w) ==
    /\ ws_pc[w] = "connected"
    /\ IF LockFree
       THEN /\ active_connections' = active_connections \ {w}
            /\ ws_pc' = [ws_pc EXCEPT ![w] = "gone"]
            /\ UNCHANGED ws_lock
       ELSE /\ ws_lock' = Enqueued(w)
            /\ ws_pc' = [ws_pc EXCEPT ![w] = "disconnect_lock"]
            /\ UNCHANGED active_connections
    /\ UNCHANGED <<broadcast, ws_removed, msg_count>>

\* disconnect resumed with the lock
DisconnectLocked(w) ==
    /\ ws_pc[w] = "disconnect_lock"
    /\ ws_lock.holder = w
    /\ active_connections' = active_connections \ {w}
    /\ ws_lock' = Released
    /\ ws_pc' = [ws_pc EXCEPT ![w] = "gone"]
    /\ UNCHANGED <<broadcast, ws_removed, msg_count>>

\* the inner try/except of broadcast: what a send_text that returned (ok) or
\* raised leaves in the locals
AfterSend_abort(bc, w, ok) ==
    IF ok THEN [bc EXCEPT !.todo = @ \ {w}, !.sent = @ \cup {w}]
    ELSE [bc EXCEPT !.todo = {}, !.outcome = "raised"]
AfterSend(bc, w, ok) ==
    IF ok THEN [bc EXCEPT !.todo = @ \ {w}, !.sent = @ \cup {w}]
    ELSE [bc EXCEPT !.todo = @ \ {w}, !.disconnected = @ \cup {w}]

\* the end of broadcast once the loop is over: the clean-up loop and the
\* release of the lock, with no await in between
FinishBroadcast(b, bc) ==
    /\ active_connections' =
            IF bc.outcome = "raised" THEN active_connections
            ELSE active_connections \ bc.disconnected
    /\ ws_removed' =
            IF bc.outcome = "raised" THEN ws_removed
            ELSE ws_removed \cup bc.disconnected
    /\ broadcast' = [broadcast EXCEPT
                        ![b] = IF bc.outcome = "raised" THEN bc
                               ELSE [bc EXCEPT !.outcome = "returned"]]
    /\ ws_lock' = Released
    /\ ws_pc' = [ws_pc EXCEPT ![b] = "idle"]

\* broadcast(message) called by task b
BroadcastCall(b) ==
    /\ ws_pc[b] = "idle"
    /\ msg_count < MaxBroadcasts
    /\ msg_count' = msg_count + 1
    /\ LET bc == [NoBroadcast EXCEPT !.msg = msg_count + 1]
       IN IF active_connections = {}
          THEN \* if not self.active_connections: return
               /\ broadcast' = [broadcast EXCEPT ![b] = [bc EXCEPT !.outcome = "returned"]]
               /\ UNCHANGED <<active_connections, ws_lock, ws_pc, ws_removed>>
          ELSE IF LockFree
          THEN /\ ws_lock' = [ws_lock EXCEPT !.holder = b]
               /\ broadcast' = [broadcast EXCEPT
                                   ![b] = [bc EXCEPT !.fanout_with = active_connections,
                                                     !.todo = active_connections]]
               /\ ws_pc' = [ws_pc EXCEPT ![b] = "sending"]
               /\ UNCHANGED <<active_connections, ws_removed>>
          ELSE /\ ws_lock' = Enqueued(b)
               /\ broadcast' = [broadcast EXCEPT ![b] = bc]
               /\ ws_pc' = [ws_pc EXCEPT ![b] = "broadcast_lock"]
               /\ UNCHANGED <<active_connections, ws_removed>>

\* broadcast resumed with the lock
BroadcastLocked(b) ==
    /\ ws_pc[b] = "broadcast_lock"
    /\ ws_lock.holder = b
    /\ IF active_connections = {}
       THEN FinishBroadcast(b, [broadcast[b] EXCEPT !.fanout_with = {}])
       ELSE /\ broadcast' = [broadcast EXCEPT
                                ![b] = [@ EXCEPT !.fanout_with = active_connections,
                                                 !.todo = active_connections]]
            /\ ws_pc' = [ws_pc EXCEPT ![b] = "sending"]
            /\ UNCHANGED <<active_connections, ws_removed, ws_lock>>
    /\ UNCHANGED msg_count

\* one await connection.send_text(...) of the loop is over: it returned or
\* raised; after the last one the clean-up runs
BroadcastSend(b) ==
    /\ ws_pc[b] = "sending"
    /\ \E w \in broadcast[b].todo : \E ok \in BOOLEAN :
          LET bc == AfterSend(broadcast[b], w, ok)
          IN IF bc.todo = {}
             THEN FinishBroadcast(b, bc)
             ELSE /\ broadcast' = [broadcast EXCEPT ![b] = bc]
                  /\ UNCHANGED <<active_connections, ws_removed, ws_lock, ws_pc>>
    /\ UNCHANGED msg_count

ws_others ==
    <<more_call_vars,
      model_vars, evaluation, decision, tick_vars, claude_client, active_conversations,
      chat_call>>

ConnectStep == \E w \in Sockets : Connect(w) /\ UNCHANGED ws_others
ConnectLockedStep == \E w \in Sockets : ConnectLocked(w) /\ UNCHANGED ws_others
DisconnectStep == \E w \in Sockets : Disconnect(w) /\ UNCHANGED ws_others
DisconnectLockedStep == \E w \in Sockets : DisconnectLocked(w) /\ UNCHANGED ws_others
BroadcastCallStep == \E b \in Broadcasters : BroadcastCall(b) /\ UNCHANGED ws_others
BroadcastLockedStep == \E b \in Broadcasters : BroadcastLocked(b) /\ UNCHANGED ws_others
BroadcastSendStep == \E b \in Broadcasters : BroadcastSend(b) /\ UNCHANGED ws_others

InitWs == InitState /\ AutonomyInit /\ CallInit /\ ChatInit /\ oracle \in FreeOracles

NextWs ==
    \/ ConnectStep
    \/ ConnectLockedStep
    \/ DisconnectStep
    \/ DisconnectLockedStep
    \/ BroadcastCallStep
    \/ BroadcastLockedStep
    \/ BroadcastSendStep

SpecWs == InitWs /\ [][NextWs]_vars

(***************************************************************************)
(* evaluate_proposal of the three archetypes, called alone.  A text is the *)
(* sequence of its characters; confidences are exact: a base in 1/10000,   *)
(* a trait in hundredths, the product in millionths.                       *)
(***************************************************************************)
\* the longest content explored, in words
MaxWords == 3
\* the most challenges handed to evaluate_proposal
MaxChallenges == 2

\* str.lower() of one character, over the letters the contents use
LowerChar(c) == IF c = "O" THEN "o" ELSE c
\* content.lower()
Lower_identity(text) == text
Lower(text) == [i \in 1..Len(text) |-> LowerChar(text[i])]

\* `word in text` of two strings: word occurs as a substring
Contains(word, text) ==
    \E i \in 0..(Len(text) - Len(word)) : SubSeq(text, i + 1, i + Len(word)) = word

\* sum(1 for word in words if word in content_lower)
Score(words, text) ==
    Cardinality({i \in 1..Len(words) : Contains(words[i], text)})

chaos_words ==
    <<<<"c", "h", "a", "o", "s">>,
      <<"r", "a", "n", "d", "o", "m">>,
      <<"u", "n", "c", "e", "r", "t", "a", "i", "n">>,
      <<"p", "a", "r", "a", "d", "o", "x">>,
      <<"c", "o", "n", "t", "r", "a", "d", "i", "c", "t", "i", "o", "n">>,
      <<"d", "o", "u", "b", "t">>>>
order_words ==
    <<<<"o", "r", "d", "e", "r">>,
      <<"s", "t", "r", "u", "c", "t", "u", "r", "e">>,
      <<"s", "a", "c", "r", "e", "d">>,
      <<"e", "t", "e", "r", "n", "a", "l">>,
      <<"t", "r", "u", "t", "h">>,
      <<"l", "a", "w">>,
      <<"r", "i", "t", "u", "a", "l">>>>
logic_words ==
    <<<<"t", "h", "e", "r", "e", "f", "o", "r", "e">>,
      <<"b", "e", "c", "a", "u", "s", "e">>,
      <<"e", "v", "i", "d", "e", "n", "c", "e">>,
      <<"r", "e", "a", "s", "o", "n">>,
      <<"p", "r", "o", "o", "f">>,
      <<"l", "o", "g", "i", "c">>,
      <<"c", "o", "n", "s", "i", "s", "t", "e", "n", "t">>>>
faith_words ==
    <<<<"f", "a", "i", "t", "h">>,
      <<"b", "e", "l", "i", "e", "v", "e">>,
      <<"s", "a", "c", "r", "e", "d">>,
      <<"d", "i", "v", "i", "n", "e">>,
      <<"m", "y", "s", "t", "e", "r", "y">>,
      <<"u", "n", "k", "n", "o", "w", "a", "b", "l", "e">>>>
absolute_words ==
    <<<<"a", "l", "w", "a", "y", "s">>,
      <<"n", "e", "v", "e", "r">>,
      <<"a", "l", "l">>,
      <<"n", "o", "n", "e">>,
      <<"m", "u", "s", "t", " ", "b", "e">>,
      <<"c", "a", "n", "n", "o", "t", " ", "b", "e">>>>
creative_words ==
    <<<<"p", "a", "r", "a", "d", "o", "x">>,
      <<"t", "r", "a", "n", "s", "f", "o", "r", "m">>,
      <<"c", "h", "a", "n", "g", "e">>,
      <<"n", "e", "w">>,
      <<"s", "y", "n", "t", "h", "e", "s", "i", "s">>,
      <<"d", "a", "n", "c", "e">>,
      <<"p", "l", "a", "y">>>>
rigid_words ==
    <<<<"m", "u", "s", "t">>,
      <<"a", "l", "w", "a", "y", "s">>,
      <<"n", "e", "v", "e", "r">>,
      <<"o", "n", "l", "y">>,
      <<"f", "i", "x", "e", "d">>,
      <<"e", "t", "e", "r", "n", "a", "l">>,
      <<"i", "m", "m", "u", "t", "a", "b", "l", "e">>>>

\* 1.0 in millionths
FullConfidence == 1000000
\* min(1.0, confidence * trait): base in 1/10000, trait in hundredths
Scaled_unclamped(base, trait) == base * trait
Scaled(base, trait) == Min(FullConfidence, base * trait)

\* the 0.3 of `proposer_trust > 0.3`, in thousandths
TrustThreshold == 300

\* Axioma.evaluate_proposal: content, the trust_score of the proposer (in
\* thousandths, 0 when there is no relationship) and the certainty trait
AxiomaBranch_ordertie(chaos_score, order_score, trust) ==
    IF chaos_score > order_score + 1 THEN "chaos"
    ELSE IF order_score >= chaos_score + 1 THEN "order"
    ELSE IF trust > TrustThreshold THEN "trust"
    ELSE "neither"
AxiomaBranch(chaos_score, order_score, trust) ==
    IF chaos_score > order_score + 1 THEN "chaos"
    ELSE IF order_score > chaos_score + 1 THEN "order"
    ELSE IF trust > TrustThreshold THEN "trust"
    ELSE "neither"

AxiomaEvaluate(content, trust, certainty) ==
    LET content_lower == Lower(content)
        chaos_score == Score(chaos_words, content_lower)
        order_score == Score(order_words, content_lower)
        branch == AxiomaBranch(chaos_score, order_score, trust)
        vote == CASE branch = "chaos" -> "reject"
                  [] branch = "order" -> "accept"
                  [] branch = "trust" -> "accept"
                  [] OTHER -> "mutate"
        confidence == CASE branch = "chaos" -> 8000 + 1000 * chaos_score
                        [] branch = "order" -> 7000 + 1000 * order_score
                        [] branch = "trust" -> 5000 + trust * 3
                        [] OTHER -> 6000
    IN {[vote |-> vote, confidence |-> Scaled(confidence, certainty),
         chaos_score |-> chaos_score, order_score |-> order_score]}

RECURSIVE ChallengeWeight(_)
\* the loop over challenges: 2 for "contradiction", 1 for "evidence"
ChallengeWeight(challenges) ==
    IF challenges = <<>> THEN 0
    ELSE LET c == Lower(Head(challenges))
         IN (IF Contains(<<"c", "o", "n", "t", "r", "a", "d", "i", "c", "t", "i", "o", "n">>, c) THEN 2 ELSE 0)
            + (IF Contains(<<"e", "v", "i", "d", "e", "n", "c", "e">>, c) THEN 1 ELSE 0)
            + ChallengeWeight(Tail(challenges))

\* Veridicus.evaluate_proposal; analysis_score is in tenths
VeridicusEvaluate(content, challenges, logical) ==
    LET content_lower == Lower(content)
        logic_score == Score(logic_words, content_lower)
        faith_score == Score(faith_words, content_lower)
        absolute_score == Score(absolute_words, content_lower)
        challenge_weight == ChallengeWeight(challenges)
        analysis_score == 10 * logic_score - 5 * faith_score - 3 * absolute_score
                              - 2 * challenge_weight
        r == IF analysis_score > 20
             THEN [vote |-> "accept", confidence |-> 7000 + 1000 * logic_score]
             ELSE IF analysis_score < -10 \/ absolute_score > 2
             THEN [vote |-> "reject", confidence |-> 6000 + 1000 * absolute_score]
             ELSE IF faith_score > logic_score
             THEN [vote |-> "mutate", confidence |-> 5000]
             ELSE [vote |-> "delay", confidence |-> 4000]
    IN {[vote |-> r.vote, confidence |-> Scaled(r.confidence, logical)]}

\* the values random.uniform(0.3, 0.9) is followed through, in 1/10000
UniformConfidences == {3000, 6000, 9000}
\* the 1.5 of `self.chaos_level > 1.5`, in tenths
HighChaos == 15

\* Paradoxia.evaluate_proposal: every result the random draws allow
ParadoxiaEvaluate(content, level) ==
    LET content_lower == Lower(content)
        creative_score == Score(creative_words, content_lower)
        rigid_score == Score(rigid_words, content_lower)
        perverse == IF creative_score > rigid_score THEN "reject" ELSE "accept"
        normal ==
            IF creative_score > rigid_score
            THEN {[vote |-> "accept",
                   confidence |-> Min(FullConfidence, (6000 + 1000 * creative_score) * 100)]}
            ELSE IF rigid_score > creative_score + 2
            THEN {[vote |-> "mutate", confidence |-> Min(FullConfidence, 7000 * 100)]}
            ELSE {[vote |-> v, confidence |-> Min(FullConfidence, 5000 * 100)] :
                     v \in {"accept", "mutate"}}
    IN IF level > HighChaos
       THEN {[vote |-> v, confidence |-> c * 100] :
                v \in VoteTypes, c \in UniformConfidences}
       ELSE {[vote |-> perverse, confidence |-> 5000 * 100]} \cup normal

\* the words the contents explored are made of
Vocabulary ==
    {<<"O", "r", "d", "e", "r">>,
     <<"s", "a", "c", "r", "e", "d">>,
     <<"e", "t", "e", "r", "n", "a", "l">>,
     <<"c", "h", "a", "o", "s">>,
     <<"r", "a", "n", "d", "o", "m">>,
     <<"p", "a", "r", "a", "d", "o", "x">>,
     <<"b", "e", "c", "a", "u", "s", "e">>,
     <<"e", "v", "i", "d", "e", "n", "c", "e">>,
     <<"p", "r", "o", "o", "f">>,
     <<"a", "l", "w", "a", "y", "s">>,
     <<"n", "e", "v", "e", "r">>,
     <<"a", "l", "l">>,
     <<"c", "h", "a", "n", "g", "e">>,
     <<"s", "h", "a", "l", "l">>}

\* " ".join(words)
RECURSIVE Join(_)
Join(ws) ==
    IF ws = <<>> THEN <<>>
    ELSE IF Len(ws) = 1 THEN ws[1]
    ELSE ws[1] \o <<" ">> \o Join(Tail(ws))

\* the proposal contents explored: up to MaxWords words of the vocabulary
Contents ==
    {Join(ws) : ws \in UNION {[1..n -> Vocabulary] : n \in 0..MaxWords}}

\* "Order and sacred structure must be preserved"
ScenarioContent ==
    <<"O", "r", "d", "e", "r", " ", "a", "n", "d", " ", "s", "a", "c", "r", "e", "d", " ", "s", "t", "r", "u", "c", "t", "u", "r", "e", " ", "m", "u", "s", "t", " ", "b", "e", " ", "p", "r", "e", "s", "e", "r", "v", "e", "d">>

\* the challenge contents explored
ChallengeContents ==
    {<<"a", " ", "c", "o", "n", "t", "r", "a", "d", "i", "c", "t", "i", "o", "n">>,
     <<"n", "o", " ", "e", "v", "i", "d", "e", "n", "c", "e">>,
     <<"a", "g", "r", "e", "e", "d">>}
ChallengeLists ==
    UNION {[1..n -> ChallengeContents] : n \in 0..MaxChallenges}

\* trust_score values in [-1, 1], in thousandths, around the threshold
TrustValues == {-1000, 0, 299, 300, 301, 1000}
\* trait values in [0, 1], in hundredths (0.9 is certainty's and logical's
\* initial value)
TraitValues == {0, 50, 90, 100}
\* chaos_level values in [MIN_CHAOS, MAX_CHAOS], in tenths
ChaosLevels == {0, 10, 15, 16, 20}

\* agent.evaluate_proposal(proposal, challenges) on Axioma
AxiomaEvaluateCall ==
    /\ evaluation = NoCall
    /\ \E content \in Contents \cup {ScenarioContent} :
      \E trust \in TrustValues : \E certainty \in TraitValues :
        \E r \in AxiomaEvaluate(content, trust, certainty) :
            /\ evaluation' = [agent |-> "Axioma", content |-> content, trust |-> trust,
                              trait |-> certainty, vote |-> r.vote,
                              confidence |-> r.confidence,
                              chaos_score |-> r.chaos_score,
                              order_score |-> r.order_score]
            /\ UNCHANGED <<more_call_vars,
                           model_vars, decision, tick_vars, claude_client, active_conversations,
                           chat_call, ws_vars>>

\* agent.evaluate_proposal(proposal, challenges) on Veridicus
VeridicusEvaluateCall ==
    /\ evaluation = NoCall
    /\ \E content \in Contents : \E challenges \in ChallengeLists :
      \E logical \in TraitValues :
        \E r \in VeridicusEvaluate(content, challenges, logical) :
            /\ evaluation' = [agent |-> "Veridicus", content |-> content,
                              challenges |-> challenges, trait |-> logical,
                              vote |-> r.vote, confidence |-> r.confidence]
            /\ UNCHANGED <<more_call_vars,
                           model_vars, decision, tick_vars, claude_client, active_conversations,
                           chat_call, ws_vars>>

\* agent.evaluate_proposal(proposal, challenges) on Paradoxia
ParadoxiaEvaluateCall ==
    /\ evaluation = NoCall
    /\ \E content \in Contents : \E level \in ChaosLevels :
        \E r \in ParadoxiaEvaluate(content, level) :
            /\ evaluation' = [agent |-> "Paradoxia", content |-> content,
                              chaos_level |-> level,
                              vote |-> r.vote, confidence |-> r.confidence]
            /\ UNCHANGED <<more_call_vars,
                           model_vars, decision, tick_vars, claude_client, active_conversations,
                           chat_call, ws_vars>>

InitEvaluate == InitState /\ AutonomyInit /\ CallInit /\ ChatInit /\ oracle \in FreeOracles

NextEvaluate ==
    \/ AxiomaEvaluateCall
    \/ VeridicusEvaluateCall
    \/ ParadoxiaEvaluateCall

SpecEvaluate == InitEvaluate /\ [][NextEvaluate]_vars

(***************************************************************************)
(* Properties                                                              *)
(***************************************************************************)
PhaseOrder == <<"proposal", "challenge", "voting", "result", "world_update">>

IsPrefix(s, t) == Len(s) <= Len(t) /\ \A i \in 1..Len(s) : s[i] = t[i]

InSeq(x, s) == \E i \in 1..Len(s) : s[i] = x

\* the awaits of run_cycle after the result has been determined
AfterTally == {"result_announced", "result_shown", "world_updated", "cycle_end"}

\* the awaits of run_cycle after the proposal has been created
AfterProposal ==
    {"proposal_shown", "challenging", "challenges_done", "voting", "votes_done",
     "result_tally"} \cup AfterTally

\* C1: within a cycle the phases are entered in the order PROPOSAL,
\* CHALLENGE, VOTING, RESULT, WORLD_UPDATE, each at most once, every change of
\* current_phase being the entry of the next phase; WORLD_UPDATE is entered
\* if and only if the cycle's outcome is accepted; and a new cycle begins only
\* when the previous one has gone through all its phases or has failed.
C1_PhaseOrder ==
    [][ /\ IsPrefix(phase_log', PhaseOrder)
        /\ (phase_log' # phase_log /\ phase_log' # <<>>
                => /\ phase_log' = Append(phase_log, current_phase')
                   /\ cycle_number' = cycle_number)
        /\ (current_phase' # current_phase
                => phase_log' = Append(phase_log, current_phase'))
        /\ (InSeq("world_update", phase_log') => outcome' = "accepted")
        /\ (pc' = "cycle_end"
                => phase_log' = IF outcome' = "accepted" THEN PhaseOrder
                                ELSE SubSeq(PhaseOrder, 1, 4))
        /\ (cycle_number' # cycle_number
                => \/ pc \in {"created", "backoff"}
                   \/ phase_log = IF outcome = "accepted" THEN PhaseOrder
                                  ELSE SubSeq(PhaseOrder, 1, 4))
      ]_vars

\* C1 witness: a second cycle ends without a world update after a first
\* cycle that went through all five phases
C1_Witness ==
    /\ pc = "cycle_end"
    /\ cycle_number = 2
    /\ outcome = "rejected"
    /\ phase_log = SubSeq(PhaseOrder, 1, 4)
    /\ Len(structures) = 1

\* C2: at most one run_cycle execution is in progress at any time, and it is
\* the one of the current cycle number.
C2_OneCycleInFlight ==
    /\ Cardinality(in_flight) <= 1
    /\ in_flight \subseteq {cycle_number}
    /\ (pc \in AfterProposal \cup {"cycle_start", "proposing"} => in_flight = {cycle_number})

\* C2 witness: a second cycle is in progress, after a stop request
C2_Witness ==
    /\ in_flight = {2}
    /\ pc = "voting"
    /\ ~is_running

\* the number of votes of type v among the cast votes
Tally(v) == Cardinality({a \in DOMAIN current_votes : current_votes[a].vote = v})

\* C3: once the result phase has tallied, the outcome is accepted if at least
\* 2 votes are accept, else rejected if at least 2 are reject, else mutated if
\* at least 2 are mutate, else delayed; so {accept, accept, reject} gives
\* accepted and three pairwise different votes give delayed.
C3_OutcomeOfVotes ==
    pc \in AfterTally =>
        /\ outcome = IF Tally("accept") >= 2 THEN "accepted"
                     ELSE IF Tally("reject") >= 2 THEN "rejected"
                     ELSE IF Tally("mutate") >= 2 THEN "mutated"
                     ELSE "delayed"
        /\ (Tally("accept") = 2 /\ Tally("reject") = 1 => outcome = "accepted")
        /\ ((\A v \in VoteTypes : Tally(v) <= 1) => outcome = "delayed")

\* C3 witness: three pairwise different votes have been tallied
C3_Witness ==
    /\ pc = "result_announced"
    /\ DOMAIN current_votes = Agents
    /\ current_votes["Axioma"].vote = "mutate"
    /\ current_votes["Veridicus"].vote = "reject"
    /\ current_votes["Paradoxia"].vote = "accept"
    /\ outcome = "delayed"

\* the proposer the round-robin gives cycle number n: Veridicus, Paradoxia,
\* Axioma for n = 1, 2, 3, and again from n = 4
RoundRobin(n) ==
    CASE n % 3 = 1 -> "Veridicus"
      [] n % 3 = 2 -> "Paradoxia"
      [] OTHER -> "Axioma"

\* C4: in every cycle the selected proposer is the round-robin proposer of
\* the cycle's number, and the cycle's proposal has it as author.
C4_RoundRobinProposer ==
    /\ (pc \in AfterProposal \cup {"proposing"} => proposer_name = RoundRobin(cycle_number))
    /\ (pc \in AfterProposal =>
            /\ current_proposal.author = RoundRobin(cycle_number)
            /\ current_proposal.cycle = cycle_number
            /\ current_proposal.id = ProposalId(cycle_number, RoundRobin(cycle_number)))

\* C4 witness: the fourth cycle's proposal is by Veridicus, its second
C4_Witness ==
    /\ pc = "proposal_shown"
    /\ cycle_number = 4
    /\ current_proposal.author = "Veridicus"
    /\ proposals_made = [a \in Agents |-> IF a = "Veridicus" THEN 2 ELSE 1]

\* the challenges in current_challenges made by agent a
ChallengesBy(a) ==
    {i \in 1..Len(current_challenges) : current_challenges[i].agent_name = a}

\* C5: in every cycle that reaches VOTING, current_challenges holds exactly
\* one challenge from each of the two non-proposer agents and none from the
\* proposer, all against the current cycle's proposal.
C5_OneChallengePerNonProposer ==
    pc \in {"voting", "votes_done"} =>
        /\ \A a \in Agents \ {current_proposal.author} : Cardinality(ChallengesBy(a)) = 1
        /\ ChallengesBy(current_proposal.author) = {}
        /\ \A i \in 1..Len(current_challenges) :
                current_challenges[i].proposal_id = current_proposal.id

\* C6: when the result phase tallies, current_votes holds exactly one vote
\* of each of the three agents, cast in the current cycle on the current
\* cycle's proposal; and within a cycle every vote cast is the first vote of
\* its agent (the dict is emptied at the cycle's start and a cast vote only
\* ever adds an agent that had none).
C6_OneVotePerAgent ==
    [][ /\ (pc' = "result_tally" =>
                /\ DOMAIN current_votes' = Agents
                /\ current_proposal'.cycle = cycle_number'
                /\ \A a \in Agents :
                      /\ current_votes'[a].agent_name = a
                      /\ current_votes'[a].cast_in = cycle_number'
                      /\ current_votes'[a].proposal_id = current_proposal'.id)
        /\ (current_votes' # current_votes /\ current_votes' # EmptyDict =>
                \E a \in Agents \ DOMAIN current_votes :
                    /\ DOMAIN current_votes' = DOMAIN current_votes \cup {a}
                    /\ \A b \in DOMAIN current_votes :
                          current_votes'[b] = current_votes[b])
      ]_vars

\* C6 witness: the second cycle's three votes are about to be tallied
C6_Witness ==
    /\ pc = "result_tally"
    /\ cycle_number = 2
    /\ DOMAIN current_votes = Agents
    /\ \A a \in Agents : current_votes[a].cast_in = 2

\* the doctrines accepted at cycle c
DoctrinesOfCycle(ds, c) == {i \in 1..Len(ds) : ds[i].accepted_at_cycle = c}

\* C7: the doctrine list changes only by the append of one entry, in a cycle
\* whose outcome is accepted, with that cycle's number and proposer, and at
\* most once per cycle; at the cycle's end it has grown by exactly one if the
\* outcome is accepted and is unchanged otherwise.
C7_DoctrineOnAccept ==
    [][ /\ (doctrines' # doctrines =>
                /\ outcome = "accepted"
                /\ Len(doctrines') = Len(doctrines) + 1
                /\ SubSeq(doctrines', 1, Len(doctrines)) = doctrines
                /\ doctrines'[Len(doctrines')].accepted_at_cycle = cycle_number
                /\ doctrines'[Len(doctrines')].proposed_by = RoundRobin(cycle_number)
                /\ doctrines'[Len(doctrines')].proposed_by = current_proposal.author
                /\ DoctrinesOfCycle(doctrines, cycle_number) = {}
                /\ cycle_number' = cycle_number)
        /\ (pc' = "cycle_end" =>
                /\ Len(doctrines') = Len(cycle_snapshot'.doctrines)
                                        + (IF outcome' = "accepted" THEN 1 ELSE 0)
                /\ Cardinality(DoctrinesOfCycle(doctrines', cycle_number'))
                        = (IF outcome' = "accepted" THEN 1 ELSE 0))
      ]_vars

\* C7 witness: the first cycle left no doctrine, the second one left one
C7_Witness ==
    /\ pc = "cycle_end"
    /\ cycle_number = 2
    /\ Len(doctrines) = 1
    /\ doctrines[1].accepted_at_cycle = 2
    /\ doctrines[1].proposed_by = "Paradoxia"
    /\ proposals_made["Veridicus"] = 1

\* the structure type the documentation gives each proposal type
StructureTypeOf ==
    [t \in ProposalTypes |->
        CASE t = "belief" -> "floating_symbol"
          [] t = "ritual" -> "altar"
          [] t = "deity" -> "temple"
          [] t = "commandment" -> "obelisk"
          [] t = "myth" -> "terrain_feature"
          [] t = "sacred_text" -> "library"
          [] t = "hierarchy" -> "monument"
          [] t = "schism" -> "rift"]

\* the structures created at cycle c
StructuresOfCycle(ss, c) == {i \in 1..Len(ss) : ss[i].created_at_cycle = c}

\* C8: the structure list changes only by the append of one structure, in a
\* cycle whose outcome is accepted and at most once per cycle; the structure's
\* type is the image of the proposal type, its spiral index the number of
\* structures before it and its distance 10 + 2 * that number; distances
\* strictly increase along the list; a cycle that ends has spawned exactly
\* one structure if accepted and none otherwise.
C8_StructureOnAccept ==
    [][ /\ (structures' # structures =>
                /\ outcome = "accepted"
                /\ Len(structures') = Len(structures) + 1
                /\ SubSeq(structures', 1, Len(structures)) = structures
                /\ structures'[Len(structures')].structure_type
                        = StructureTypeOf[current_proposal.type]
                /\ structures'[Len(structures')].spiral_index = Len(structures)
                /\ structures'[Len(structures')].distance = 10 + 2 * Len(structures)
                /\ StructuresOfCycle(structures, cycle_number) = {}
                /\ cycle_number' = cycle_number)
        /\ (\A i, j \in 1..Len(structures') :
                i < j => structures'[i].distance < structures'[j].distance)
        /\ (pc' = "cycle_end" =>
                Cardinality(StructuresOfCycle(structures', cycle_number'))
                    = (IF outcome' = "accepted" THEN 1 ELSE 0))
      ]_vars

\* C8 witness: three rifts spawned by three accepted schisms, at 10, 12, 14
C8_Witness ==
    /\ Len(structures) = 3
    /\ \A i \in 1..3 : structures[i].structure_type = "rift"
    /\ structures[1].distance = 10
    /\ structures[3].distance = 14
    /\ structures[3].spiral_index = 2

\* C9: an exception ends the cycle attempt in the backoff of start(), never
\* in the termination of the loop (start() returns only with the running flag
\* clear); cycle_number changes only by +1 and only as a cycle attempt begins,
\* and every attempt, after a failure as well, raises it by 1; after the
\* backoff another attempt is possible while the running flag is set.
C9_FailureKeepsLoop ==
    [][ /\ (cycle_number' # cycle_number =>
                cycle_number' = cycle_number + 1 /\ pc' = "cycle_start")
        /\ (pc' = "cycle_start" /\ pc # "cycle_start" =>
                cycle_number' = cycle_number + 1)
        /\ (pc' = "returned" /\ pc # "returned" => ~is_running /\ ~is_running')
        /\ (pc = "proposing" /\ pc' \notin {"proposing", "proposal_shown", "cancelled"} =>
                pc' = "backoff")
        /\ (pc = "backoff" /\ pc' \notin {"backoff", "cancelled"} =>
                IF is_running THEN pc' = "cycle_start" ELSE pc' = "returned")
        /\ (pc = "backoff" /\ is_running /\ cycle_number < CycleLimit =>
                ENABLED NextCycle)
      ]_vars

\* C9 witness: a second attempt runs after a first one that created nothing
C9_Witness ==
    /\ pc = "proposing"
    /\ cycle_number = 2
    /\ current_proposal = NoProposal
    /\ is_running

\* the agent after a in the round-robin order
NextInOrder(a) ==
    CASE a = "Axioma" -> "Veridicus"
      [] a = "Veridicus" -> "Paradoxia"
      [] a = "Paradoxia" -> "Axioma"

\* C10: a step of the proposing await that creates no proposal (the generation
\* raised) abandons the cycle; in the backoff that follows no challenge and
\* no vote exists, relationships, influence scores, doctrines and structures
\* are as they were when the cycle began; and the next attempt has the next
\* cycle number and the next proposer of the round-robin.
C10_ProposalFailureAbandons ==
    [][ /\ (pc = "proposing" /\ pc' \notin {"proposing", "cancelled"}
                /\ proposals_made' = proposals_made => pc' = "backoff")
        /\ (pc' = "backoff" =>
                /\ current_challenges' = <<>>
                /\ current_votes' = EmptyDict
                /\ relationships' = cycle_snapshot'.relationships
                /\ influence_score' = cycle_snapshot'.influence_score
                /\ doctrines' = cycle_snapshot'.doctrines
                /\ structures' = cycle_snapshot'.structures
                /\ DoctrinesOfCycle(doctrines', cycle_number') = {}
                /\ StructuresOfCycle(structures', cycle_number') = {})
        /\ (pc = "backoff" /\ pc' = "cycle_start" => cycle_number' = cycle_number + 1)
        /\ (pc = "cycle_start" /\ pc' = "proposing" /\ proposer_name # "none" =>
                proposer_name' = NextInOrder(proposer_name))
      ]_vars

\* C10 witness: the first cycle's generation failed and the second cycle is
\* attempted with Paradoxia, the proposer after Veridicus
C10_Witness ==
    /\ pc = "proposing"
    /\ cycle_number = 2
    /\ proposer_name = "Paradoxia"
    /\ proposals_made["Veridicus"] = 0

\* C11: a challenger's generation that raises is fatal to the cycle: the step
\* of the challenging await that adds no challenge (the generation raised)
\* ends the cycle attempt in the backoff of start(), so that neither VOTING
\* nor RESULT is entered and no other challenger is asked in that cycle.
C11_ChallengeFailureFatal ==
    [][ (/\ pc = "challenging"
         /\ pc' # "cancelled"
         /\ current_challenges' = current_challenges
         /\ (pc' # pc \/ challenge_idx' # challenge_idx))
            => /\ pc' = "backoff"
               /\ current_phase' = "challenge"
      ]_vars

RECURSIVE SumOver(_, _)
\* the sum of f over the names of the sequence
SumOver(f, names) ==
    IF names = <<>> THEN 0 ELSE f[Head(names)] + SumOver(f, Tail(names))

\* C12: when the shutdown path stops the orchestrator and at once cancels
\* its task (the task took no step in between), whatever await the cycle is
\* suspended at, the doctrines, the structures and the accepted proposals of
\* all agents are equally many afterwards, and cycle_number is unchanged by
\* the stop (every attempt begun has added one, see C9).
C12_CancelKeepsCounters ==
    [][ (/\ lifespan_pc = "stopped"
         /\ lifespan_pc' = "shutdown"
         /\ stop_fresh)
            => /\ Len(doctrines') = Len(structures')
               /\ Len(doctrines') = SumOver(proposals_accepted', AgentNames)
               /\ cycle_number' = cycle_number
      ]_vars

\* C13: once stop() has cleared the running flag the flag stays clear,
\* cycle_number never increases and no run_cycle begins; when the in-flight
\* cycle or the backoff is over the only step of the task is the return of
\* start(), and that step is possible.
C13_StopEndsLoop ==
    [][ lifespan_pc # "serving" =>
            /\ ~is_running /\ ~is_running'
            /\ cycle_number' = cycle_number
            /\ (pc' = "cycle_start" => pc = "cycle_start")
            /\ in_flight' \subseteq in_flight
            /\ (pc \in {"cycle_end", "backoff"} /\ pc' # pc
                    => pc' \in {"returned", "cancelled"})
            /\ (pc \in {"cycle_end", "backoff"} => ENABLED LoopExit)
            /\ (pc = "returned" => pc' = "returned")
      ]_vars

\* C13 witness: stopped during its second cycle, the loop let the cycle end
\* and returned
C13_Witness ==
    /\ pc = "returned"
    /\ lifespan_pc = "stopped"
    /\ cycle_number = 2
    /\ Len(phase_log) >= 4

\* the counters of a's relationship record for b, zero while a has none
RelCount(rels, a, b, field) ==
    IF b \in DOMAIN rels[a] THEN rels[a][b][field] ELSE 0

\* C14: relationships are written only as the result phase tallies, and by
\* that step, whatever the outcome, every ordered pair (a, b) of distinct
\* agents has a's record for b updated once: total_interactions + 1, and
\* alliances + 1 if the two vote types are equal, otherwise conflicts + 1;
\* no agent has a record for itself; no record is ever deleted and no
\* counter ever decreases; a cycle that ends has added exactly one
\* interaction to every pair.
C14_RelationshipPerPair ==
    [][ /\ (relationships' # relationships =>
                pc = "result_tally" /\ pc' = "result_announced")
        /\ (pc = "result_tally" /\ pc' = "result_announced" =>
                \A a \in Agents : \A b \in Agents \ {a} :
                    LET agreed == current_votes[a].vote = current_votes[b].vote
                    IN /\ b \in DOMAIN relationships'[a]
                       /\ relationships'[a][b].total_interactions
                            = RelCount(relationships, a, b, "total_interactions") + 1
                       /\ relationships'[a][b].alliances
                            = RelCount(relationships, a, b, "alliances")
                                + (IF agreed THEN 1 ELSE 0)
                       /\ relationships'[a][b].conflicts
                            = RelCount(relationships, a, b, "conflicts")
                                + (IF agreed THEN 0 ELSE 1))
        /\ (\A a \in Agents :
                /\ a \notin DOMAIN relationships'[a]
                /\ DOMAIN relationships[a] \subseteq DOMAIN relationships'[a]
                /\ \A b \in DOMAIN relationships[a] :
                      /\ relationships'[a][b].total_interactions
                            >= relationships[a][b].total_interactions
                      /\ relationships'[a][b].alliances >= relationships[a][b].alliances
                      /\ relationships'[a][b].conflicts >= relationships[a][b].conflicts)
        /\ (pc' = "cycle_end" =>
                \A a \in Agents : \A b \in Agents \ {a} :
                    RelCount(relationships', a, b, "total_interactions")
                        = RelCount(cycle_snapshot'.relationships, a, b,
                                   "total_interactions") + 1)
      ]_vars

\* C14 witness: two cycles were tallied, neither accepted; Axioma and
\* Veridicus agreed in one and disagreed in the other
C14_Witness ==
    /\ pc = "result_announced"
    /\ cycle_number = 2
    /\ outcome = "delayed"
    /\ doctrines = <<>>
    /\ "Veridicus" \in DOMAIN relationships["Axioma"]
    /\ relationships["Axioma"]["Veridicus"].total_interactions = 2
    /\ relationships["Axioma"]["Veridicus"].alliances = 1
    /\ relationships["Axioma"]["Veridicus"].conflicts = 1
    /\ relationships["Paradoxia"]["Axioma"].total_interactions = 2

\* a's record for b after two consecutive agreements with b
TwoAgreements(a, b) ==
    UpdateRelationship(UpdateRelationship(relationships[a], b, TRUE), b, TRUE)[b]

\* C15: every trust_score lies in [-1, 1] (in hundredths); an update that
\* counts an agreement leaves min(1, trust + 0.1) and one that counts a
\* disagreement max(-1, trust - 0.05); from every reachable record, two
\* consecutive agreements raise alliances by exactly 2 and leave
\* min(1, trust + 0.2).
C15_TrustClamped ==
    [][ \A a \in Agents : \A b \in DOMAIN relationships'[a] :
            LET new == relationships'[a][b]
                oldTrust == RelCount(relationships, a, b, "trust_score")
                oldAl == RelCount(relationships, a, b, "alliances")
                oldCo == RelCount(relationships, a, b, "conflicts")
            IN /\ new.trust_score >= -100 /\ new.trust_score <= 100
               /\ (new.alliances = oldAl + 1 =>
                        new.trust_score = (IF oldTrust + 10 > 100 THEN 100
                                           ELSE oldTrust + 10))
               /\ (new.conflicts = oldCo + 1 =>
                        new.trust_score = (IF oldTrust - 5 < -100 THEN -100
                                           ELSE oldTrust - 5))
               /\ (new.alliances = oldAl /\ new.conflicts = oldCo =>
                        new.trust_score = oldTrust)
               /\ (b \in DOMAIN relationships[a] =>
                      /\ TwoAgreements(a, b).alliances = oldAl + 2
                      /\ TwoAgreements(a, b).trust_score
                            = (IF oldTrust + 20 > 100 THEN 100 ELSE oldTrust + 20))
      ]_vars

\* C15 witness: an eleventh agreement with Veridicus kept the trust at 1, a
\* twenty-first disagreement with Paradoxia kept it at -1
C15_Witness ==
    /\ DOMAIN relationships["Axioma"] = {"Veridicus", "Paradoxia"}
    /\ relationships["Axioma"]["Veridicus"].alliances = 11
    /\ relationships["Axioma"]["Veridicus"].conflicts = 0
    /\ relationships["Axioma"]["Veridicus"].trust_score = 100
    /\ relationships["Axioma"]["Paradoxia"].conflicts = 21
    /\ relationships["Axioma"]["Paradoxia"].trust_score = -100

\* C16: every influence_score is a non-negative integer; it is written only
\* as the result phase tallies, and that step changes the score of the
\* cycle's proposer alone: + 10 if the outcome is accepted, otherwise - 5 but
\* not below 0.
C16_InfluenceFloor ==
    [][ /\ (\A a \in Agents : influence_score'[a] \in Nat)
        /\ (influence_score' # influence_score =>
                pc = "result_tally" /\ pc' = "result_announced")
        /\ (pc = "result_tally" /\ pc' = "result_announced" =>
                LET p == RoundRobin(cycle_number)
                    s == influence_score[p]
                IN /\ current_proposal.author = p
                   /\ \A a \in Agents \ {p} : influence_score'[a] = influence_score[a]
                   /\ influence_score'[p] =
                        (IF outcome' = "accepted" THEN s + 10
                         ELSE IF s - 5 < 0 THEN 0 ELSE s - 5))
      ]_vars

\* C16 witness: Paradoxia's twenty-first proposal is turned down with its
\* score already at 0
C16_Witness ==
    /\ pc = "result_announced"
    /\ outcome # "accepted"
    /\ current_proposal.author = "Paradoxia"
    /\ proposals_made["Paradoxia"] = 21
    /\ proposals_accepted["Paradoxia"] = 0
    /\ influence_score["Paradoxia"] = 0

\* the state of the debate: proposal, challenges, votes, doctrine list
debate_state == <<current_proposal, current_challenges, current_votes, doctrines>>
\* an agent's awareness and cooldown state
awareness_state == <<aware_of_users, last_interaction_with, global_action_cooldown>>

\* C17 as stated: a step of the debate cycle writes no agent's awareness,
\* cooldown or relationship state, and these are written only by the
\* autonomy loop and the chat dispatch; a step of the autonomy loop or of the
\* chat dispatch writes neither proposal, challenges, votes nor doctrines,
\* and these are written only by the debate cycle.
C17_DisjointWriteSets ==
    [][ /\ (Next => UNCHANGED <<awareness_state, relationships>>)
        /\ (<<awareness_state, relationships>>' # <<awareness_state, relationships>>
                => NextAutonomy)
        /\ (NextAutonomy => UNCHANGED debate_state)
        /\ (debate_state' # debate_state => Next)
      ]_vars

\* C17 amended: the write sets are disjoint with the relationship state on
\* the debate cycle's side.  Only the debate cycle writes proposal,
\* challenges, votes, doctrines and the relationships, which its result
\* phase writes at every tally; only the autonomy loop and the chat dispatch
\* write an agent's awareness, cooldown and desires; neither side writes the
\* other's variables.
C17_DisjointWriteSetsAmended ==
    [][ /\ (Next => UNCHANGED <<awareness_state, desires>>)
        /\ (<<awareness_state, desires>>' # <<awareness_state, desires>> => NextAutonomy)
        /\ (NextAutonomy => UNCHANGED <<debate_state, relationships>>)
        /\ (<<debate_state, relationships>>' # <<debate_state, relationships>> => Next)
        /\ (pc = "result_tally" /\ pc' = "result_announced"
                => relationships' # relationships)
      ]_vars

\* C17 witness: the result phase has written the relationships after the
\* registered agent, aware of a user, has acted on a desire
C17_Witness ==
    \E a \in chat_agents :
        /\ pc = "result_announced"
        /\ relationships[a] # EmptyDict
        /\ current_votes # EmptyDict
        /\ aware_of_users[a] # <<>>
        /\ global_action_cooldown[a] > 0
        /\ action_log[a].count > 0

\* C21: Axioma votes REJECT when chaos_score > order_score + 1, otherwise
\* ACCEPT when order_score > chaos_score + 1, otherwise ACCEPT when its trust
\* in the proposer exceeds 0.3, otherwise MUTATE, and never DELAY; with 3
\* order words and no chaos word the vote is ACCEPT with a confidence of at
\* least 0.7 * certainty.
C21_AxiomaThresholds ==
    evaluation.agent = "Axioma" =>
        LET c == evaluation.chaos_score
            o == evaluation.order_score
        IN /\ evaluation.vote =
                (IF c > o + 1 THEN "reject"
                 ELSE IF o > c + 1 THEN "accept"
                 ELSE IF evaluation.trust * 10 > 3000 THEN "accept"
                 ELSE "mutate")
           /\ evaluation.vote # "delay"
           /\ (o = 3 /\ c = 0 =>
                  /\ evaluation.vote = "accept"
                  /\ evaluation.confidence >= 7000 * evaluation.trait)

\* C21 witness: Axioma has evaluated a content with 3 order words and no
\* chaos word, with a proposer it distrusts, and voted ACCEPT
C21_Witness ==
    /\ evaluation.agent = "Axioma"
    /\ evaluation.order_score = 3
    /\ evaluation.chaos_score = 0
    /\ evaluation.trust = -1000
    /\ evaluation.trait = 90
    /\ evaluation.vote = "accept"
    /\ evaluation.confidence = 900000

\* Axioma with certainty 0.9 and no trust in the proposer has evaluated the
\* content "Order and sacred structure must be preserved"
ScenarioEvaluated ==
    /\ evaluation.agent = "Axioma"
    /\ evaluation.content = ScenarioContent
    /\ evaluation.trust = 0
    /\ evaluation.trait = 90

\* C22 as stated: for that content Axioma counts order_score = 2 and
\* chaos_score = 0, votes ACCEPT and reports the confidence
\* (0.7 + 0.2) * 0.9 = 0.81.
C22_ScenarioConfidence ==
    ScenarioEvaluated =>
        /\ evaluation.order_score = 2
        /\ evaluation.chaos_score = 0
        /\ evaluation.vote = "accept"
        /\ evaluation.confidence = 810000

\* C22 amended: for that content Axioma counts order_score = 3 (order,
\* sacred, structure) and chaos_score = 0, votes ACCEPT and reports the
\* confidence (0.7 + 0.3) * 0.9 = 0.9.
C22_ScenarioConfidenceAmended ==
    ScenarioEvaluated =>
        /\ evaluation.order_score = 3
        /\ evaluation.chaos_score = 0
        /\ evaluation.vote = "accept"
        /\ evaluation.confidence = 900000

\* C22 witness: the scenario has been evaluated and the vote is ACCEPT
C22_Witness == ScenarioEvaluated /\ evaluation.vote = "accept"

\* C23: every vote of the three archetypes has a confidence in [0, 1].
C23_ConfidenceRange ==
    evaluation # NoCall =>
        /\ evaluation.agent \in Agents
        /\ evaluation.vote \in VoteTypes
        /\ evaluation.confidence >= 0
        /\ evaluation.confidence <= 1000000

\* C23 witness: Axioma with certainty 1.0 has rejected a content with three
\* chaos words, where 0.8 + 0.3 is cut to 1
C23_Witness ==
    /\ evaluation.agent = "Axioma"
    /\ evaluation.chaos_score = 3
    /\ evaluation.trait = 100
    /\ evaluation.vote = "reject"
    /\ evaluation.confidence = 1000000

\* C24: send_user_message, initiate_agent_conversation and
\* continue_agent_conversation never raise to their caller, whatever the
\* user, agent, conversation and speaker ids (an initiator equal to the
\* target included); a call ends by returning, with None on any failure.
C24_NeverRaises ==
    chat_call # NoCall => chat_call.outcome = "returned"

\* the listeners a broadcast step has just sent to, or tried to
NewlyTried(b) ==
    (broadcast'[b].sent \cup broadcast'[b].disconnected)
        \ (IF broadcast'[b].msg = broadcast[b].msg
           THEN broadcast[b].sent \cup broadcast[b].disconnected ELSE {})

\* the broadcast of task b ends in this step
BroadcastEnds(b) == broadcast[b].outcome = "none" /\ broadcast'[b].outcome # "none"

\* C25: a broadcast never raises; when a send to a listener fails, that
\* listener is removed from the active set and the message is still sent to
\* every other listener registered when the broadcast began its sends (it
\* holds the lock from then on); no later broadcast is sent to a removed
\* listener.
C25_BroadcastIsolation ==
    [][\A b \in Broadcasters :
          /\ broadcast'[b].outcome # "raised"
          /\ NewlyTried(b) \cap ws_removed = {}
          /\ (BroadcastEnds(b) /\ broadcast'[b].disconnected # {} =>
                /\ broadcast'[b].disconnected \cap active_connections' = {}
                /\ broadcast'[b].fanout_with \ broadcast'[b].disconnected
                        \subseteq broadcast'[b].sent)
      ]_vars

\* C25 witness: a broadcast over three listeners has returned after one send
\* failed, with the message sent to the two others, and a later broadcast is
\* running
C25_Witness ==
    \E b, c \in Broadcasters :
        /\ broadcast[b].outcome = "returned"
        /\ Cardinality(broadcast[b].disconnected) = 1
        /\ Cardinality(broadcast[b].sent) = 2
        /\ broadcast[b].disconnected \cap active_connections = {}
        /\ broadcast[c].msg > broadcast[b].msg
        /\ broadcast[c].sent # {}

\* a decide_action call was made and returned an action made of a desire
DecidedOnDesire ==
    /\ decision # NoCall
    /\ decision.desires # <<>>
    /\ decision.returned # NoAction

\* how many desires of ds come before ds[i] when sorted by falling intensity
\* (of two equal ones the earlier in the list comes first)
DesiresAhead(ds, i) ==
    Cardinality({j \in 1..Len(ds) :
                    \/ ds[j].intensity > ds[i].intensity
                    \/ (ds[j].intensity = ds[i].intensity /\ j < i)})

\* C26: when decide_action returns an action made of a desire, that desire is
\* one of the three of highest intensity, the global cooldown is the current
\* time plus 10 seconds, the current time is recorded for the action's
\* target, and exactly the triggering desire has half its intensity while
\* every other desire is as it was.
C26_ActsOnTopThree ==
    DecidedOnDesire =>
        LET a == decision.agent
            ds == decision.desires
            x == decision.returned
        IN /\ global_action_cooldown[a] = decision.at + 10
           /\ last_interaction_with[a] =
                 IF x.target = "none" THEN decision.last_interaction_with
                 ELSE [u \in DOMAIN decision.last_interaction_with \cup {x.target} |->
                          IF u = x.target THEN decision.at
                          ELSE decision.last_interaction_with[u]]
           /\ \E i \in 1..Len(ds) :
                 /\ DesiresAhead(ds, i) < 3
                 /\ ds[i].type = x.triggered_by
                 /\ Len(desires[a]) = Len(ds)
                 /\ 2 * desires[a][i].intensity = ds[i].intensity
                 /\ desires[a][i].type = ds[i].type
                 /\ desires[a][i].target = ds[i].target
                 /\ \A j \in 1..Len(ds) : j # i => desires[a][j] = ds[j]

\* four desires, the strongest of a type no action is built for, and the
\* action was made of a weaker one aimed at the user
C26_Witness ==
    /\ DecidedOnDesire
    /\ Len(decision.desires) = 4
    /\ decision.desires[1].type = "influence"
    /\ decision.desires[4].type = "curiosity"
    /\ decision.returned.triggered_by = "curiosity"
    /\ decision.returned.target = "u1"
    /\ decision.desires[2].intensity > CuriosityIntensity

\* C27: when decide_action returns no action, the desires, the global
\* cooldown and the per-target interaction times are as they were.
C27_NoActionNoChange ==
    decision # NoCall /\ decision.returned = NoAction =>
        /\ desires[decision.agent] = decision.desires
        /\ global_action_cooldown[decision.agent] = decision.global_action_cooldown
        /\ last_interaction_with[decision.agent] = decision.last_interaction_with

\* the agent could act and had desires, and none of the three tried was
\* turned into an action
C27_Witness ==
    /\ decision # NoCall
    /\ decision.returned = NoAction
    /\ decision.at >= decision.global_action_cooldown
    /\ Len(decision.desires) = 4
    /\ \E i \in 1..4 : decision.desires[i].type = "reflection"

\* C28: with no desires and the global cooldown over, decide_action returns
\* nothing or a share_thought or make_observation action.
C28_SpontaneousOnly ==
    /\ decision # NoCall
    /\ decision.desires = <<>>
    /\ decision.at >= decision.global_action_cooldown
    => \/ decision.returned = NoAction
       \/ decision.returned.action_type \in {"share_thought", "make_observation"}

\* a spontaneous thought came of an agent with no desire
C28_Witness ==
    /\ decision # NoCall
    /\ decision.desires = <<>>
    /\ decision.at >= decision.global_action_cooldown
    /\ decision.returned.action_type = "share_thought"

\* the serial numbers of the desires in the registered agent's list
LiveDesires == {desire_ids[i] : i \in 1..Len(desire_ids)}

\* C29: a desire's intensity never increases from one step to the next and is
\* always within [0, 1], and with update_world_awareness called again and
\* again every desire in the list is eventually out of it.
C29_DesiresFade ==
    /\ [][\A i \in 1..Len(desire_ids) : \A j \in 1..Len(desire_ids') :
            desire_ids[i] = desire_ids'[j]
                => desires'[RegisteredAgents[1]][j].intensity
                      <= desires[RegisteredAgents[1]][i].intensity]_vars
    /\ [](\A i \in 1..Len(desires[RegisteredAgents[1]]) :
            /\ desires[RegisteredAgents[1]][i].intensity >= 0
            /\ desires[RegisteredAgents[1]][i].intensity <= Hundredths(100))
    /\ \A k \in 1..(MaxTickDesires + Cardinality(Users)) :
            (k \in LiveDesires) ~> (k \notin LiveDesires)

\* two desires were created, one is gone, and the other is still in the list
\* and weaker than it was, after an action was made of a desire
C29_Witness ==
    /\ ids_made = 2
    /\ Len(desire_ids) = 1
    /\ action_log[RegisteredAgents[1]].count >= 1
    /\ desires[RegisteredAgents[1]][1].intensity < Hundredths(20)

\* the positions in ds of the curiosities aimed at user u
CuriositiesAbout(ds, u) ==
    {i \in 1..Len(ds) : ds[i].type = "curiosity" /\ ds[i].target = u}

\* the users in the list aware
Aware(aware) == {aware[i] : i \in 1..Len(aware)}

\* C30: in every step and for every registered agent, the users it is aware
\* of are kept; the step at which it becomes aware of a user leaves exactly
\* one curiosity aimed at that user, of intensity 0.7 less the 0.1 hours of
\* decay that follow in update_world_awareness; and once it is aware of the
\* user no step adds a curiosity aimed at that user: there are no more of
\* them than before and none is stronger than all those there were.
C30_CuriosityOnce ==
    [][\A a \in chat_agents : \A u \in Users :
          LET before == CuriositiesAbout(desires[a], u)
              after == CuriositiesAbout(desires'[a], u)
          IN /\ Len(aware_of_users'[a]) >= Len(aware_of_users[a])
             /\ SubSeq(aware_of_users'[a], 1, Len(aware_of_users[a])) = aware_of_users[a]
             /\ (u \notin Aware(aware_of_users[a]) /\ u \in Aware(aware_of_users'[a])
                    => /\ Cardinality(after) = 1
                       /\ \A j \in after :
                             desires'[a][j].intensity = CuriosityIntensity - Hundredths(1))
             /\ (u \in Aware(aware_of_users[a])
                    => /\ Cardinality(after) <= Cardinality(before)
                       /\ \A j \in after : \E i \in before :
                             desires'[a][j].intensity <= desires[a][i].intensity)
      ]_vars

\* the user has left after the agent's curiosity about them was gone or
\* spent, and is back while the agent has no curiosity about them
C30_Witness ==
    /\ active_users = <<"u1">>
    /\ now >= 2 * CheckInterval
    /\ \E a \in chat_agents :
          /\ aware_of_users[a] = <<"u1">>
          /\ CuriositiesAbout(desires[a], "u1") = {}

\* C31: the recent_events buffer holds at most 50 events, and they are the
\* last ones received, in the order they arrived.
C31_RecentEvents ==
    /\ Len(recent_events) <= 50
    /\ Len(recent_events) = IF events_received < 50 THEN events_received ELSE 50
    /\ \A i \in 1..Len(recent_events) :
          recent_events[i].serial = events_received - Len(recent_events) + i

\* more events were received than the buffer holds, the last list alone
\* being longer than the buffer
C31_Witness ==
    /\ events_received = 64
    /\ Len(recent_events) = 50
    /\ recent_events[1].serial = 15

\* C32: chaos_level is always within [0, 2] and every trait within [0, 1];
\* a metamorphose call changes at most 3 traits, each by at most 0.2, the
\* chaos level by at most 0.3, and adds exactly 1 to metamorphosis_count.
C32_Metamorphosis ==
    /\ [](/\ chaos_level >= 0 /\ chaos_level <= 200
          /\ \A t \in DOMAIN traits : traits[t] >= 0 /\ traits[t] <= 100)
    /\ [][/\ Cardinality({t \in DOMAIN traits : traits'[t] # traits[t]}) <= 3
          /\ \A t \in DOMAIN traits :
                traits'[t] - traits[t] <= 20 /\ traits[t] - traits'[t] <= 20
          /\ chaos_level' - chaos_level <= 30
          /\ chaos_level - chaos_level' <= 30
          /\ DOMAIN traits' = DOMAIN traits
          /\ metamorphosis_count' = metamorphosis_count + 1]_vars

\* after two calls the chaos level was held at its maximum, one trait at 1
\* and another at 0
C32_Witness ==
    /\ metamorphosis_count = 2
    /\ chaos_level = 200
    /\ traits.playful = 100
    /\ traits.disruptive = 0

\* C33: for every pair of distinct agents a and b, a's relationship record
\* for b and b's record for a agree: either both exist or neither does, and
\* trust_score, alliances, conflicts and total_interactions are equal.  The
\* double loop of the result phase has no await, so the equality holds in
\* every state and in particular between cycles.
C33_SymmetricRelationships ==
    \A a \in Agents : \A b \in Agents \ {a} :
        /\ (b \in DOMAIN relationships[a]) = (a \in DOMAIN relationships[b])
        /\ (b \in DOMAIN relationships[a] =>
                /\ relationships[a][b].trust_score = relationships[b][a].trust_score
                /\ relationships[a][b].alliances = relationships[b][a].alliances
                /\ relationships[a][b].conflicts = relationships[b][a].conflicts
                /\ relationships[a][b].total_interactions
                        = relationships[b][a].total_interactions)

\* C33 witness: between cycles, after two tallied cycles in which Axioma and
\* Veridicus agreed once and disagreed once while Paradoxia disagreed with
\* Axioma both times
C33_Witness ==
    /\ pc = "cycle_end"
    /\ "Veridicus" \in DOMAIN relationships["Axioma"]
    /\ "Paradoxia" \in DOMAIN relationships["Axioma"]
    /\ relationships["Axioma"]["Veridicus"].alliances = 1
    /\ relationships["Veridicus"]["Axioma"].conflicts = 1
    /\ relationships["Veridicus"]["Axioma"].trust_score = TrustGain - TrustLoss
    /\ relationships["Paradoxia"]["Axioma"].conflicts = 2
    /\ relationships["Axioma"]["Paradoxia"].trust_score = 0 - 2 * TrustLoss

\* C34: in every state there are at most as many structures as doctrines and
\* no agent has more proposals accepted than made; once broadcast_cycle_end
\* has closed a cycle (the task is in the sleep that ends run_cycle) the
\* structures, the doctrines and the accepted proposals of all agents are
\* equally many.
C34_CountersAgree ==
    /\ Len(structures) <= Len(doctrines)
    /\ \A a \in Agents : proposals_accepted[a] <= proposals_made[a]
    /\ (pc = "cycle_end" =>
            /\ Len(structures) = Len(doctrines)
            /\ Len(doctrines) = SumOver(proposals_accepted, AgentNames))

\* C34 witness: a cycle has ended after one proposal was accepted and a
\* second was made and not accepted
C34_Witness ==
    /\ pc = "cycle_end"
    /\ outcome # "accepted"
    /\ Len(structures) = 1
    /\ Len(doctrines) = 1
    /\ SumOver(proposals_accepted, AgentNames) = 1
    /\ SumOver(proposals_made, AgentNames) = 2

\* the doctrines whose id is the associated_doctrine_id of the structure st
DoctrinesOf(st) == {j \in 1..Len(doctrines) : doctrines[j].id = st.associated_doctrine_id}

\* C35: every structure's associated_doctrine_id is the id of exactly one
\* doctrine, and that doctrine was accepted in the cycle the structure was
\* created in.
C35_StructureNamesDoctrine ==
    \A i \in 1..Len(structures) :
        /\ Cardinality(DoctrinesOf(structures[i])) = 1
        /\ \A j \in DoctrinesOf(structures[i]) :
                doctrines[j].accepted_at_cycle = structures[i].created_at_cycle

\* the action types _desire_to_action and _generate_spontaneous_action have
\* no branch for
UnbuiltActions == {"propose_topic", "create_in_world", "respond_to_presence"}

\* the desires of the agent that call for unbuilt actions only
Unanswered(ds) == SelectSeq(ds, LAMBDA d : d.type \in {"influence", "creation"})

\* C36: whatever awareness updates, events, added desires and decisions came
\* before, decide_action returns no propose_topic, create_in_world or
\* respond_to_presence action and no action made of an influence or creation
\* desire; the influence and creation desires of an agent change only by the
\* append of add_desire or by the decay of an awareness update (which
\* removes those at or below 0.1), and a decision leaves them as they are.
C36_NoUnbuiltAction ==
    /\ [](decision # NoCall =>
            /\ decision.returned.action_type \notin UnbuiltActions
            /\ decision.returned.triggered_by \notin {"influence", "creation"})
    /\ [][ \A a \in Agents :
            LET u == Unanswered(desires[a])
                v == Unanswered(desires'[a])
            IN /\ \/ v = u
                  \/ Len(v) = Len(u) + 1 /\ SubSeq(v, 1, Len(u)) = u
                  \/ /\ events_received' = events_received + 1
                     /\ v = SelectSeq([i \in 1..Len(u) |->
                                          [u[i] EXCEPT !.intensity = @ - Hundredths(1)]],
                                      LAMBDA d : d.intensity > Hundredths(10))
               /\ (action_log'[a] # action_log[a] => v = u)
          ]_vars

\* C36 witness: decide_action has returned a challenge made of the second
\* strongest desire, after an accepted proposal was heard of, while the
\* influence desire ahead of it stands as it was added
C36_Witness ==
    /\ decision # NoCall
    /\ decision.returned.action_type = "challenge_idea"
    /\ decision.returned.target = "Veridicus"
    /\ ids_made = 2
    /\ events_received = 1
    /\ decision.desires = <<MakeDesire("influence", Hundredths(90), "none"),
                            MakeDesire("challenge", Hundredths(80), "none")>>
    /\ desires[decision.agent] = <<MakeDesire("influence", Hundredths(90), "none"),
                                   MakeDesire("challenge", Hundredths(40), "none")>>

\* the call returned None (a conversation id is no string: the two are told
\* apart by their text)
ReturnedNone(call) == ToString(call.value) = ToString(None)

\* C37: a call of initiate_agent_conversation that returns None leaves
\* active_conversations as it was, and a call that returns an id has
\* registered exactly the conversation of that id.
C37_RegisteredIffReturned ==
    [][ chat_call'.fn = "initiate_agent_conversation" =>
            IF ReturnedNone(chat_call')
            THEN active_conversations' = active_conversations
            ELSE DOMAIN active_conversations' \ DOMAIN active_conversations
                    = {chat_call'.value}
      ]_vars

\* message_count of the conversation c in the dict convs, 0 while unregistered
MessageCount(convs, c) == IF c \in DOMAIN convs THEN convs[c].message_count ELSE 0
\* the agent_chat broadcasts made for conversation c, from the history chats
AgentChats(chats, c) == IF c \in DOMAIN chats THEN chats[c] ELSE 0

\* C38: every successful call of initiate_agent_conversation or
\* continue_agent_conversation (one that returns an id or a response) adds
\* to message_count of its conversation as many as it broadcasts agent_chat
\* messages for it, so that after any sequence of successful calls the two
\* numbers are equal for every registered conversation.
C38_CountsBroadcasts ==
    [][ (/\ chat_call'.fn \in {"initiate_agent_conversation",
                                "continue_agent_conversation"}
         /\ chat_call'.outcome = "returned"
         /\ ~ReturnedNone(chat_call'))
            => \A c \in DOMAIN active_conversations' :
                  MessageCount(active_conversations', c)
                        - MessageCount(active_conversations, c)
                    = AgentChats(agent_chats', c) - AgentChats(agent_chats, c)
      ]_vars

\* C39: in every interleaving of start_autonomy_loop and stop_autonomy_loop
\* calls with the loop tasks, at most one task goes on polling: one while
\* the running flag is set and none while it is clear; the agents are
\* polled by the task of self._autonomy_task only; while the flag is set no
\* call creates a task or replaces self._autonomy_task; and once a stop has
\* returned, with no start since it was called, no agent is polled.
C39_OneLoop ==
    /\ [](Cardinality(ActiveLoops) = IF autonomy_running THEN 1 ELSE 0)
    /\ [][ /\ (polls' # polls => polls'.by = autonomy_task /\ autonomy_running)
           /\ (autonomy_running =>
                    /\ Len(loop_tasks') = Len(loop_tasks)
                    /\ autonomy_task' = autonomy_task)
           /\ (quiet => polls' = polls)
         ]_vars

\* C39 witness: a loop polled, was stopped and the stop waited for it; a
\* second loop was started while the first had its cancellation pending, it
\* polled, was stopped, and that stop has returned: all is quiet with two
\* tasks done
C39_Witness ==
    /\ quiet
    /\ ~autonomy_running
    /\ Len(loop_tasks) = 2
    /\ \A k \in 1..2 : loop_tasks[k].at = "done"
    /\ polls = [count |-> 3, by |-> 2]
    /\ stop_calls = {[awaits |-> 1, made |-> 1]}

\* the intensity Desire.decay(h) leaves, h in tenths of an hour
DecayedIntensity(x, h) == IF x - 16 * h < 0 THEN 0 ELSE x - 16 * h

\* C18: Desire.decay(h) leaves max(0, intensity - 0.1 * h); a decay_desires(h)
\* call leaves, in their order, exactly the desires whose decayed intensity
\* is above 0.1, each with its decayed intensity, so that every desire left
\* is strictly above 0.1 and every one at or below 0.1 is gone.
C18_DecayAndPrune ==
    [][ \A a \in Agents :
          /\ \A i \in 1..Len(desires[a]) : \A h \in DecayHours :
                DesireDecay(desires[a][i], h).intensity
                    = DecayedIntensity(desires[a][i].intensity, h)
          /\ (desires'[a] # desires[a] /\ Len(desires'[a]) <= Len(desires[a]) =>
                /\ \A i \in 1..Len(desires'[a]) :
                      desires'[a][i].intensity > 16 * 10
                /\ \E h \in DecayHours :
                      LET kept == {i \in 1..Len(desires[a]) :
                                    DecayedIntensity(desires[a][i].intensity, h) > 16 * 10}
                      IN /\ Len(desires'[a]) = Cardinality(kept)
                         /\ \A i \in kept :
                               LET k == Cardinality({j \in kept : j <= i})
                               IN /\ desires'[a][k].intensity
                                       = DecayedIntensity(desires[a][i].intensity, h)
                                  /\ desires'[a][k].type = desires[a][i].type
                                  /\ desires'[a][k].target = desires[a][i].target)
      ]_vars

\* C18 witness: a desire alone in the list at 0.89, which only a decay of
\* 0.1 h from 0.9 leaves
C18_Witness ==
    \E a \in chat_agents :
        /\ Len(desires[a]) = 1
        /\ desires[a][1].intensity = 16 * 89

\* C19: an action returned by decide_action at time t is followed by no
\* other action of the same agent before t + 10 seconds, whether the first
\* one was triggered by a desire or spontaneous.
C19_GlobalCooldown ==
    [][ \A a \in Agents :
            (action_log'[a].count # action_log[a].count /\ action_log[a].count > 0)
                => now' - action_log[a].at >= 10
      ]_vars

\* C20: an action returned by decide_action with target T at time t is
\* followed by no other action of the same agent with target T before
\* t + 30 seconds, whatever the action types.
C20_TargetCooldown ==
    [][ \A a \in Agents : \A T \in DOMAIN action_log[a].by_target :
            action_log'[a].count # action_log[a].count
                /\ action_log'[a].by_target[T] = now'
                => now' - action_log[a].by_target[T] >= 30
      ]_vars

====
